---- MODULE Spec2Model ----
(***************************************************************************)
(* State-machine model of the CLANK! tracker's session accumulator         *)
(* (src/src/game_tracker.py, class GameTracker) together with the files    *)
(* of its save directory.                                                  *)
(*                                                                         *)
(* Representation of Python values:                                        *)
(*   - a dict with string keys is a function whose DOMAIN is the set of    *)
(*     keys present (so a missing key is observable, as KeyError is);      *)
(*   - a list is a sequence;                                               *)
(*   - an optional argument is a tagged value: None, Str(s) or Dict(items);*)
(*   - an ISO timestamp string is represented by the clock reading that    *)
(*     datetime.now() returned when it was produced (in ticks);            *)
(*   - the text of a JSON file is a record holding the members written, in *)
(*     order, and whether the closing brace was written.                   *)
(***************************************************************************)
EXTENDS Integers, Sequences, FiniteSets, TLC

VARIABLES
    now,              \* the wall clock read by datetime.now(), in ticks
    current_session,  \* GameTracker.current_session of the live accumulator
    disk,             \* the file system: path -> text of the file
    call,             \* the most recent call on the accumulator and its outcome
    saved,            \* history: path -> the live session handed to the last
                      \* save_session that wrote that path, before the stamp
    screen_size,      \* the resolution of the display, as pyautogui.size()
                      \* reports it
    screen_capture,   \* the ScreenCapture object: screen_width, screen_height
    cli,              \* the command line run: the parsed arguments, the place
                      \* reached in auto_monitoring_mode, the sleeps made,
                      \* whether the last pass caught an error
    monitoring_active,\* ClankTrackerGUI.monitoring_active
    threads,          \* the monitoring threads of the GUI: for each, the place
                      \* reached in monitoring_loop and its local cards
    after_queue,      \* the callbacks handed to root.after and not yet run,
                      \* as a set: each only redraws a part of the window
                      \* from the state it finds, so one that waits twice
                      \* is held once
    ingest,           \* history: the thread that made the last
                      \* track_card_detection call of the GUI, and the value
                      \* monitoring_active had at that call
    trackers          \* the GameTracker objects constructed in this run
                      \* after the live one: the current_session of each

\* The variables of the applications around the accumulator.
app_vars == <<screen_size, screen_capture, cli, monitoring_active, threads,
              after_queue, ingest, trackers>>

vars == <<now, current_session, disk, call, saved, screen_size,
          screen_capture, cli, monitoring_active, threads, after_queue,
          ingest, trackers>>

\* No application has been started around the accumulator: no ScreenCapture
\* has been constructed, cli.py's main has not run, the GUI has no window.
AppNotStarted ==
    /\ screen_size = [width |-> 0, height |-> 0]
    /\ screen_capture = [screen_width |-> 0, screen_height |-> 0]
    /\ cli = [interval |-> 0, pc |-> "not run", slept |-> <<>>,
             failed |-> FALSE]
    /\ monitoring_active = FALSE
    /\ threads = <<>>
    /\ after_queue = {}
    /\ ingest = [thread |-> "none", active |-> FALSE]
    /\ trackers = <<>>

----------------------------------------------------------------------------
(* Bounds of the model *)

MaxTime == 1          \* the clock runs from tick 0 to tick MaxTime
TicksPerSecond == 1   \* clock ticks per second shown by strftime("%H%M%S")
MaxNames == 2         \* longest card_names list passed to one call
MaxEntries == 2       \* most entries (cards, events, screenshots) in a session
MaxReportEvents == 7  \* most game events of a session that is reported
MaxCleanLen == 5      \* longest text handed to clean_text on its own
MaxTextLen == 31      \* longest text handed to is_likely_card_name on its own
MaxLines == 2         \* most lines in the text Tesseract reads from an image
MaxRegions == 2       \* most text regions EasyOCR finds in an image
MaxDetected == 3      \* longest detected_cards list handed to identify_scenario
MaxHours == 100       \* longest session whose duration is reported, in hours
MaxCycles == 2        \* most sleeps of one run of auto_monitoring_mode
MaxWorkers == 2       \* most monitoring threads the GUI starts
MaxTrackers == 2      \* most accumulators constructed after the live one

----------------------------------------------------------------------------
(* Python values *)

None == [py |-> "None"]
Str(s) == [py |-> "str", s |-> s]
Dict(items) == [py |-> "dict", items |-> items]

\* Python truthiness of an optional dict: None and the empty dict are falsy.
Truthy(v) == v.py = "dict" /\ v.items # <<>>

\* The card names a recognition pass can hand over; two of them differ only
\* in letter case.
CardNames == {"Adventure Card", "adventure card"}

RECURSIVE SeqsUpTo(_, _)
SeqsUpTo(S, n) ==
    IF n = 0 THEN {<<>>}
    ELSE LET shorter == SeqsUpTo(S, n - 1)
         IN  shorter \cup {Append(s, x) : s \in shorter, x \in S}

CardNameLists == SeqsUpTo(CardNames, MaxNames)

\* The optional arguments: a detection is handed the screenshot it was read
\* from; events and screenshots are recorded without data and OCR results.
ScreenshotPaths == {Str("test_screenshot.png")}
EventData == {None}
OcrResults == {None}

----------------------------------------------------------------------------
(* The accumulator's construction *)

save_directory == "docs"

\* GameTracker._generate_session_id: the clock at whole seconds.
GenerateSessionId(t) == "clank_session_" \o ToString(t \div TicksPerSecond)

\* The dict literal of GameTracker.__init__.
NewSession(t) ==
    [session_id  |-> GenerateSessionId(t),
     start_time  |-> t,
     cards_seen  |-> <<>>,
     scenarios   |-> <<>>,
     game_events |-> <<>>,
     screenshots |-> <<>>]

NoException == "none"

\* The record of a call: the method, the exception it raised (NoException
\* when it returned) and the value it returned.
Call(op, raised, returned) ==
    [op |-> op, raised |-> raised, returned |-> returned]

\* len(session[key]) for the list under key, 0 when the key is missing.
Count(session, key) == IF key \in DOMAIN session THEN Len(session[key]) ELSE 0

\* Number of entries a session holds.
Entries(session) ==
    Count(session, "cards_seen") + Count(session, "game_events")
        + Count(session, "screenshots")

----------------------------------------------------------------------------
(* JSON text *)

\* Order in which json.dump writes the members of the session dict: the
\* insertion order of __init__'s literal, then end_time added by save_session.
KeyOrder == <<"session_id", "start_time", "cards_seen", "scenarios",
              "game_events", "screenshots", "end_time">>

RECURSIVE DumpMembers(_, _)
DumpMembers(obj, keys) ==
    IF keys = <<>> THEN <<>>
    ELSE IF Head(keys) \in DOMAIN obj
         THEN <<[key |-> Head(keys), value |-> obj[Head(keys)]]>>
                  \o DumpMembers(obj, Tail(keys))
         ELSE DumpMembers(obj, Tail(keys))

\* json.dump(obj, f, indent=2) of a dict.
JsonDump(obj) == [members |-> DumpMembers(obj, KeyOrder), closed |-> TRUE]

\* A text json.load accepts.
WellFormed(text) == text.closed

\* json.load of a well-formed text holding an object.
JsonLoad(text) ==
    LET keys == {text.members[i].key : i \in DOMAIN text.members}
        last(k) == CHOOSE i \in DOMAIN text.members :
                      /\ text.members[i].key = k
                      /\ \A j \in DOMAIN text.members :
                             text.members[j].key = k => j <= i
    IN  [k \in keys |-> text.members[last(k)].value]

\* Files that are in the file system without having been written by the
\* accumulator: a file that is not JSON and a file holding the object {}.
CorruptedFile == "corrupted.json"
EmptyObjectFile == "empty_object.json"
MissingFile == "missing.json"

ForeignFiles ==
    [p \in {CorruptedFile, EmptyObjectFile} |->
        IF p = CorruptedFile
        THEN [members |-> <<>>, closed |-> FALSE]
        ELSE [members |-> <<>>, closed |-> TRUE]]

\* save_directory / f"{session_id}.json"
SessionFile(dir, session_id) == dir \o "/" \o session_id \o ".json"

----------------------------------------------------------------------------
(* Initial state: GameTracker.__init__ has just run, at some tick *)

Init ==
    /\ now \in 0..MaxTime
    /\ current_session = NewSession(now)
    /\ disk = ForeignFiles
    /\ call = Call("__init__", NoException, "None")
    /\ saved = <<>>
    /\ AppNotStarted

\* Time passes.
Tick ==
    /\ now < MaxTime
    /\ now' = now + 1
    /\ UNCHANGED <<current_session, disk, call, saved>>
    /\ UNCHANGED app_vars

----------------------------------------------------------------------------
(* GameTracker.track_card_detection *)

SeenNames(cards_seen) == {cards_seen[i].card_name : i \in DOMAIN cards_seen}

\* Variant of the detection loop without the "not already seen" test.
RECURSIVE DetectionLoopNoDedup(_, _, _, _)
DetectionLoopNoDedup(cards_seen, card_names, timestamp, screenshot_path) ==
    IF card_names = <<>> THEN cards_seen
    ELSE DetectionLoopNoDedup(
             Append(cards_seen, [card_name  |-> Head(card_names),
                                 timestamp  |-> timestamp,
                                 screenshot |-> screenshot_path,
                                 confidence |-> "detected"]),
             Tail(card_names), timestamp, screenshot_path)

\* Variant of the detection loop that refreshes the event of a name already
\* seen with the new detection instead of discarding the detection.
RECURSIVE DetectionLoopRefresh(_, _, _, _)
DetectionLoopRefresh(cards_seen, card_names, timestamp, screenshot_path) ==
    IF card_names = <<>> THEN cards_seen
    ELSE LET card_name == Head(card_names)
             card_event == [card_name  |-> card_name,
                            timestamp  |-> timestamp,
                            screenshot |-> screenshot_path,
                            confidence |-> "detected"]
         IN  DetectionLoopRefresh(
                 IF card_name \notin SeenNames(cards_seen)
                 THEN Append(cards_seen, card_event)
                 ELSE [i \in DOMAIN cards_seen |->
                          IF cards_seen[i].card_name = card_name
                          THEN card_event ELSE cards_seen[i]],
                 Tail(card_names), timestamp, screenshot_path)

\* Variant of the detection loop that compares names ignoring letter case.
LowerCase(name) == IF name = "Adventure Card" THEN "adventure card" ELSE name

RECURSIVE DetectionLoopIgnoreCase(_, _, _, _)
DetectionLoopIgnoreCase(cards_seen, card_names, timestamp, screenshot_path) ==
    IF card_names = <<>> THEN cards_seen
    ELSE LET card_name == Head(card_names)
             card_event == [card_name  |-> card_name,
                            timestamp  |-> timestamp,
                            screenshot |-> screenshot_path,
                            confidence |-> "detected"]
         IN  DetectionLoopIgnoreCase(
                 IF LowerCase(card_name) \notin
                        {LowerCase(n) : n \in SeenNames(cards_seen)}
                 THEN Append(cards_seen, card_event)
                 ELSE cards_seen,
                 Tail(card_names), timestamp, screenshot_path)

RECURSIVE DetectionLoop(_, _, _, _)
DetectionLoop(cards_seen, card_names, timestamp, screenshot_path) ==
    IF card_names = <<>> THEN cards_seen
    ELSE LET card_name == Head(card_names)
             card_event == [card_name  |-> card_name,
                            timestamp  |-> timestamp,
                            screenshot |-> screenshot_path,
                            confidence |-> "detected"]
         IN  DetectionLoop(
                 IF card_name \notin SeenNames(cards_seen)
                 THEN Append(cards_seen, card_event)
                 ELSE cards_seen,
                 Tail(card_names), timestamp, screenshot_path)

TrackCardDetection(card_names, screenshot_path) ==
    /\ IF card_names # <<>> /\ "cards_seen" \notin DOMAIN current_session
       THEN /\ call' = Call("track_card_detection", "KeyError", "None")
            /\ UNCHANGED current_session
       ELSE /\ call' = Call("track_card_detection", NoException, "None")
            /\ current_session' =
                 IF card_names = <<>> THEN current_session
                 ELSE [current_session EXCEPT !["cards_seen"] =
                          DetectionLoop(@, card_names, now, screenshot_path)]
            /\ Entries(current_session') <= MaxEntries
    /\ UNCHANGED <<now, disk, saved>>
    /\ UNCHANGED app_vars

----------------------------------------------------------------------------
(* GameTracker.track_game_event *)

\* Variant of track_game_event that records nothing once the session has been
\* saved.
TrackGameEventClosed(event_type, description, data) ==
    /\ "game_events" \in DOMAIN current_session
    /\ Entries(current_session) < MaxEntries
    /\ current_session' =
          IF "end_time" \in DOMAIN current_session THEN current_session
          ELSE [current_session EXCEPT !["game_events"] =
                   Append(@, [event_type  |-> event_type,
                              description |-> description,
                              timestamp   |-> now,
                              data        |-> IF Truthy(data) THEN data
                                              ELSE Dict(<<>>)])]
    /\ call' = Call("track_game_event", NoException, "None")
    /\ UNCHANGED <<now, disk, saved>>
    /\ UNCHANGED app_vars

\* Variant of track_game_event that stores the data argument as it was given.
TrackGameEventKeepNone(event_type, description, data) ==
    /\ "game_events" \in DOMAIN current_session
    /\ Entries(current_session) < MaxEntries
    /\ current_session' =
          [current_session EXCEPT !["game_events"] =
              Append(@, [event_type  |-> event_type,
                         description |-> description,
                         timestamp   |-> now,
                         data        |-> data])]
    /\ call' = Call("track_game_event", NoException, "None")
    /\ UNCHANGED <<now, disk, saved>>
    /\ UNCHANGED app_vars

TrackGameEvent(event_type, description, data) ==
    /\ IF "game_events" \notin DOMAIN current_session
       THEN /\ call' = Call("track_game_event", "KeyError", "None")
            /\ UNCHANGED current_session
       ELSE /\ Entries(current_session) < MaxEntries
            /\ LET event == [event_type  |-> event_type,
                             description |-> description,
                             timestamp   |-> now,
                             data        |-> IF Truthy(data) THEN data
                                             ELSE Dict(<<>>)]
               IN  current_session' =
                     [current_session EXCEPT !["game_events"] = Append(@, event)]
            /\ call' = Call("track_game_event", NoException, "None")
    /\ UNCHANGED <<now, disk, saved>>
    /\ UNCHANGED app_vars

(* GameTracker.track_screenshot *)

\* Variant of track_screenshot that keeps only the latest screenshot.
TrackScreenshotLatestOnly(screenshot_path, ocr_results) ==
    /\ "screenshots" \in DOMAIN current_session
    /\ Entries(current_session) < MaxEntries
    /\ current_session' =
          [current_session EXCEPT !["screenshots"] =
              <<[path        |-> screenshot_path,
                 timestamp   |-> now,
                 ocr_results |-> ocr_results]>>]
    /\ call' = Call("track_screenshot", NoException, "None")
    /\ UNCHANGED <<now, disk, saved>>
    /\ UNCHANGED app_vars

TrackScreenshot(screenshot_path, ocr_results) ==
    /\ IF "screenshots" \notin DOMAIN current_session
       THEN /\ call' = Call("track_screenshot", "KeyError", "None")
            /\ UNCHANGED current_session
       ELSE /\ Entries(current_session) < MaxEntries
            /\ LET screenshot_data == [path        |-> screenshot_path,
                                       timestamp   |-> now,
                                       ocr_results |-> ocr_results]
               IN  current_session' =
                     [current_session EXCEPT !["screenshots"] =
                          Append(@, screenshot_data)]
            /\ call' = Call("track_screenshot", NoException, "None")
    /\ UNCHANGED <<now, disk, saved>>
    /\ UNCHANGED app_vars

----------------------------------------------------------------------------
(* GameTracker.save_session *)

\* current_session["end_time"] = t
SetItem(d, k, v) == [x \in DOMAIN d \cup {k} |-> IF x = k THEN v ELSE d[x]]

\* Variant of the write that opens the file for appending.
WriteFileAppend(fs, path, text) ==
    [x \in DOMAIN fs \cup {path} |->
        IF x # path THEN fs[x]
        ELSE IF path \in DOMAIN fs
             THEN [members |-> fs[path].members \o text.members,
                   closed  |-> text.closed]
             ELSE text]

\* open(session_file, 'w') creates or truncates the file, json.dump fills it.
WriteFile(fs, path, text) == SetItem(fs, path, text)

\* Variant of the stamp that keeps an end_time already set.
StampedOnce(session, t) ==
    IF "end_time" \in DOMAIN session THEN session
    ELSE [x \in DOMAIN session \cup {"end_time"} |->
             IF x = "end_time" THEN t ELSE session[x]]

\* Variant of the stamp that closes the session at the time it began.
StampedAtStart(session, t) ==
    SetItem(session, "end_time",
            IF "start_time" \in DOMAIN session THEN session["start_time"]
            ELSE t)

\* self.current_session["end_time"] = datetime.now().isoformat()
Stamped(session, t) == SetItem(session, "end_time", t)

\* open_fails: whether open(session_file, 'w') raises (the save directory may
\* have been removed or made read-only since construction).
SaveSession(open_fails) ==
    /\ IF "session_id" \notin DOMAIN current_session
       THEN /\ call' = Call("save_session", "KeyError", "None")
            /\ UNCHANGED <<current_session, disk, saved>>
       ELSE LET session_file ==
                    SessionFile(save_directory, current_session["session_id"])
                stamped == Stamped(current_session, now)
            IN  /\ current_session' = stamped
                /\ IF open_fails
                   THEN /\ call' = Call("save_session", "OSError", "None")
                        /\ UNCHANGED <<disk, saved>>
                   ELSE /\ disk' = WriteFile(disk, session_file, JsonDump(stamped))
                        /\ saved' = SetItem(saved, session_file, current_session)
                        /\ call' = Call("save_session", NoException, session_file)
    /\ UNCHANGED now
    /\ UNCHANGED app_vars

----------------------------------------------------------------------------
(* GameTracker.load_session *)

\* The exception load_session(session_file) raises: open() fails on a
\* missing file, json.load on a text that is not JSON.
LoadRaises(fs, session_file) ==
    IF session_file \notin DOMAIN fs THEN "FileNotFoundError"
    ELSE IF ~WellFormed(fs[session_file]) THEN "JSONDecodeError"
    ELSE NoException

\* Variant of load_session that empties the live session before parsing.
LoadIntoClearFirst(session, fs, session_file) ==
    IF LoadRaises(fs, session_file) # NoException THEN <<>>
    ELSE JsonLoad(fs[session_file])

\* Variant of load_session that updates the live session with the parsed
\* document (dict.update) instead of replacing it.
LoadIntoMerge(session, fs, session_file) ==
    IF LoadRaises(fs, session_file) # NoException THEN session
    ELSE LET parsed == JsonLoad(fs[session_file])
         IN  [k \in DOMAIN session \cup DOMAIN parsed |->
                 IF k \in DOMAIN parsed THEN parsed[k] ELSE session[k]]

\* Variant of load_session that keeps the identity of the live session and
\* takes only the lists of the parsed document.
LoadIntoKeepIdentity(session, fs, session_file) ==
    IF LoadRaises(fs, session_file) # NoException THEN session
    ELSE LET parsed == JsonLoad(fs[session_file])
         IN  [k \in DOMAIN parsed |->
                 IF k = "start_time" /\ k \in DOMAIN session
                 THEN session[k] ELSE parsed[k]]

\* current_session after load_session(session_file) on an accumulator whose
\* current_session was session: the assignment happens only when json.load
\* has returned.
LoadInto(session, fs, session_file) ==
    IF LoadRaises(fs, session_file) # NoException THEN session
    ELSE JsonLoad(fs[session_file])

LoadSession(session_file) ==
    /\ current_session' = LoadInto(current_session, disk, session_file)
    /\ call' = Call("load_session", LoadRaises(disk, session_file), "None")
    /\ UNCHANGED <<now, disk, saved>>
    /\ UNCHANGED app_vars

\* test_load_session: a new accumulator is constructed and loads the location
\* an earlier save_session returned.
LoadIntoNewTracker(saved_file) ==
    /\ saved_file \in DOMAIN disk
    /\ current_session' = LoadInto(NewSession(now), disk, saved_file)
    /\ call' = Call("load_session", LoadRaises(disk, saved_file), "None")
    /\ UNCHANGED <<now, disk, saved>>
    /\ UNCHANGED app_vars

\* Every path a caller may pass to load_session.
SessionFiles ==
    {SessionFile(save_directory, GenerateSessionId(t)) : t \in 0..MaxTime}
LoadablePaths == SessionFiles \cup {CorruptedFile, EmptyObjectFile, MissingFile}

----------------------------------------------------------------------------
(* GameTracker.get_session_stats and GameTracker.generate_session_report *)

\* f"{n:02d}": at least two characters, padded with a zero on the left.
Pad2(n) == IF 0 <= n /\ n < 10 THEN "0" \o ToString(n) ELSE ToString(n)

\* Variant of _calculate_session_duration that always measures up to the
\* clock, whether or not the session has an end_time.
CalculateSessionDurationToNow(session, t) ==
    LET total_seconds == (t - session["start_time"]) \div TicksPerSecond
        hours     == total_seconds \div 3600
        remainder == total_seconds % 3600
        minutes   == remainder \div 60
        seconds   == remainder % 60
    IN  Pad2(hours) \o ":" \o Pad2(minutes) \o ":" \o Pad2(seconds)

\* GameTracker._calculate_session_duration read at clock t: the time from
\* start_time to end_time (to t when the session has no end_time), in whole
\* seconds, as HH:MM:SS.
CalculateSessionDuration(session, t) ==
    LET end_time == IF "end_time" \in DOMAIN session
                    THEN session["end_time"] ELSE t
        total_seconds == (end_time - session["start_time"]) \div TicksPerSecond
        hours     == total_seconds \div 3600
        remainder == total_seconds % 3600
        minutes   == remainder \div 60
        seconds   == remainder % 60
    IN  Pad2(hours) \o ":" \o Pad2(minutes) \o ":" \o Pad2(seconds)

\* The keys get_session_stats subscripts; a missing one raises KeyError
\* ("scenarios" is read with .get and may be missing).
StatsKeys == {"session_id", "start_time", "cards_seen", "game_events",
              "screenshots"}

\* What get_session_stats() gives on a session read at clock t.
GetSessionStats(session, t) ==
    IF ~(StatsKeys \subseteq DOMAIN session)
    THEN [raised |-> "KeyError", returned |-> "None"]
    ELSE [raised   |-> NoException,
          returned |->
            [session_id           |-> session["session_id"],
             duration             |-> CalculateSessionDuration(session, t),
             unique_cards_seen    |-> Len(session["cards_seen"]),
             total_events         |-> Len(session["game_events"]),
             screenshots_captured |-> Len(session["screenshots"]),
             scenarios_identified |->
                 IF "scenarios" \in DOMAIN session
                 THEN Cardinality({session["scenarios"][i] :
                                      i \in DOMAIN session["scenarios"]})
                 ELSE 0]]

\* Variant of get_session_stats that closes the session it reports on.
GetSessionStatsStamping ==
    /\ LET stats == GetSessionStats(current_session, now)
       IN  call' = Call("get_session_stats", stats.raised, stats.returned)
    /\ current_session' = Stamped(current_session, now)
    /\ UNCHANGED <<now, disk, saved>>
    /\ UNCHANGED app_vars

GetSessionStatsCall ==
    /\ LET stats == GetSessionStats(current_session, now)
       IN  call' = Call("get_session_stats", stats.raised, stats.returned)
    /\ UNCHANGED <<now, current_session, disk, saved>>
    /\ UNCHANGED app_vars

\* The number of game events the report shows.
ReportTail == 5

\* Variant of the slice that takes the first events instead of the last.
FirstEvents(events, n) ==
    SubSeq(events, 1, IF Len(events) < n THEN Len(events) ELSE n)

\* events[-n:]
LastEvents(events, n) ==
    SubSeq(events, IF Len(events) > n THEN Len(events) - n + 1 ELSE 1,
           Len(events))

\* What generate_session_report() gives on a session read at clock t. The
\* text is kept as its parts: the values of the heading, one line per card
\* ("  - <card_name> (at <timestamp>)") and one line per game event shown
\* ("  - <event_type>: <description>").
GenerateSessionReport(session, t) ==
    LET stats == GetSessionStats(session, t)
    IN  IF stats.raised # NoException
        THEN [raised |-> stats.raised, returned |-> "None"]
        ELSE LET shown == LastEvents(session["game_events"], ReportTail)
             IN  [raised   |-> NoException,
                  returned |->
                    [session_id     |-> stats.returned.session_id,
                     duration       |-> stats.returned.duration,
                     cards_detected |-> stats.returned.unique_cards_seen,
                     game_events    |-> stats.returned.total_events,
                     screenshots    |-> stats.returned.screenshots_captured,
                     card_lines     |->
                         [i \in DOMAIN session["cards_seen"] |->
                             [card_name |-> session["cards_seen"][i].card_name,
                              at        |-> session["cards_seen"][i].timestamp]],
                     event_lines    |->
                         [i \in DOMAIN shown |->
                             [event_type  |-> shown[i].event_type,
                              description |-> shown[i].description]]]]

GenerateSessionReportCall ==
    /\ LET report == GenerateSessionReport(current_session, now)
       IN  call' = Call("generate_session_report", report.raised,
                        report.returned)
    /\ UNCHANGED <<now, current_session, disk, saved>>
    /\ UNCHANGED app_vars

----------------------------------------------------------------------------
EventTypes == {"phase_change"}
Descriptions == {"Entered market phase"}
ShotPaths == {"screenshot.png"}

Next ==
    \/ Tick
    \/ \E card_names \in CardNameLists, screenshot_path \in ScreenshotPaths :
           TrackCardDetection(card_names, screenshot_path)
    \/ \E event_type \in EventTypes, description \in Descriptions,
          data \in EventData :
           TrackGameEvent(event_type, description, data)
    \/ \E screenshot_path \in ShotPaths, ocr_results \in OcrResults :
           TrackScreenshot(screenshot_path, ocr_results)
    \/ \E open_fails \in BOOLEAN : SaveSession(open_fails)
    \/ \E session_file \in LoadablePaths : LoadSession(session_file)
    \/ \E saved_file \in SessionFiles : LoadIntoNewTracker(saved_file)
    \/ GetSessionStatsCall

Spec == Init /\ [][Next]_vars

\* The life of one freshly constructed accumulator that never loads.
NextFresh ==
    \/ Tick
    \/ \E card_names \in CardNameLists, screenshot_path \in ScreenshotPaths :
           TrackCardDetection(card_names, screenshot_path)
    \/ \E event_type \in EventTypes, description \in Descriptions,
          data \in EventData :
           TrackGameEvent(event_type, description, data)
    \/ \E screenshot_path \in ShotPaths, ocr_results \in OcrResults :
           TrackScreenshot(screenshot_path, ocr_results)
    \/ \E open_fails \in BOOLEAN : SaveSession(open_fails)

SpecFresh == Init /\ [][NextFresh]_vars

\* The game events of test_very_long_session: event_1 .. event_n, recorded
\* at the tick of construction.
NumberedEvents(n) ==
    [i \in 1..n |-> [event_type  |-> "event_" \o ToString(i),
                     description |-> "Event number " \o ToString(i),
                     timestamp   |-> 0,
                     data        |-> Dict(<<>>)]]

\* The card events of one detection call with card_names, at the tick of
\* construction.
DetectedAtStart(card_names) ==
    DetectionLoop(<<>>, card_names, 0, Str("test_screenshot.png"))

\* Sessions that hold more game events than the report shows: the session
\* of an accumulator constructed at tick 0 after one detection call and n
\* track_game_event calls.
InitReport ==
    /\ now = 0
    /\ \E n \in 0..MaxReportEvents, card_names \in CardNameLists :
           current_session =
               [NewSession(0) EXCEPT !["cards_seen"] = DetectedAtStart(card_names),
                                     !["game_events"] = NumberedEvents(n)]
    /\ disk = ForeignFiles
    /\ call = Call("__init__", NoException, "None")
    /\ saved = <<>>
    /\ AppNotStarted

NextReport ==
    \/ Tick
    \/ GetSessionStatsCall
    \/ GenerateSessionReportCall

SpecReport == InitReport /\ [][NextReport]_vars

\* Clock readings of a long session, in ticks: construction, 59 seconds,
\* one hour, 25 hours 1 minute 1 second, and MaxHours hours later.
DurationInstants ==
    {seconds * TicksPerSecond :
        seconds \in {0, 59, 3600, 25 * 3600 + 61, MaxHours * 3600}}

\* Time passes up to a later reading of the clock.
Elapse ==
    /\ \E t \in DurationInstants : t > now /\ now' = t
    /\ UNCHANGED <<current_session, disk, call, saved>>
    /\ UNCHANGED app_vars

\* The files loaded during a long session: the file of the session itself
\* and the file holding the object {}.
DurationLoadable ==
    {SessionFile(save_directory, GenerateSessionId(0)), EmptyObjectFile}

\* An accumulator constructed at tick 0 and used over a long time.
InitDuration ==
    /\ now = 0
    /\ current_session = NewSession(0)
    /\ disk = ForeignFiles
    /\ call = Call("__init__", NoException, "None")
    /\ saved = <<>>
    /\ AppNotStarted

NextDuration ==
    \/ Elapse
    \/ \E event_type \in EventTypes, description \in Descriptions,
          data \in EventData :
           TrackGameEvent(event_type, description, data)
    \/ \E open_fails \in BOOLEAN : SaveSession(open_fails)
    \/ \E session_file \in DurationLoadable : LoadSession(session_file)
    \/ GetSessionStatsCall
    \/ GenerateSessionReportCall

SpecDuration == InitDuration /\ [][NextDuration]_vars

----------------------------------------------------------------------------
(* Several accumulators in one run, sharing the save directory *)

\* GameTracker(save_directory): one more accumulator is constructed, next
\* to the live one and those constructed before.
ConstructTracker ==
    /\ Len(trackers) < MaxTrackers
    /\ trackers' = Append(trackers, NewSession(now))
    /\ call' = Call("__init__", NoException, "None")
    /\ UNCHANGED <<now, current_session, disk, saved, screen_size,
                   screen_capture, cli, monitoring_active, threads,
                   after_queue, ingest>>

\* save_session() of the i-th of these accumulators.
SaveTracker(i, open_fails) ==
    /\ LET session_file ==
               SessionFile(save_directory, trackers[i]["session_id"])
           stamped == Stamped(trackers[i], now)
       IN  /\ trackers' = [trackers EXCEPT ![i] = stamped]
           /\ IF open_fails
              THEN /\ call' = Call("save_session", "OSError", "None")
                   /\ UNCHANGED <<disk, saved>>
              ELSE /\ disk' = WriteFile(disk, session_file, JsonDump(stamped))
                   /\ saved' = SetItem(saved, session_file, trackers[i])
                   /\ call' = Call("save_session", NoException, session_file)
    /\ UNCHANGED <<now, current_session, screen_size, screen_capture, cli,
                   monitoring_active, threads, after_queue, ingest>>

NextTrackers ==
    \/ Tick
    \/ ConstructTracker
    \/ \E event_type \in EventTypes, description \in Descriptions,
          data \in EventData :
           TrackGameEvent(event_type, description, data)
    \/ \E open_fails \in BOOLEAN : SaveSession(open_fails)
    \/ \E i \in DOMAIN trackers, open_fails \in BOOLEAN :
           SaveTracker(i, open_fails)

SpecTrackers == Init /\ [][NextTrackers]_vars

----------------------------------------------------------------------------
(* OCRProcessor: texts are strings; At(text, i) is the character at i *)

At(text, i) == SubSeq(text, i, i)
From(text, i) == SubSeq(text, i, Len(text))

LowerLetters == "abcdefghijklmnopqrstuvwxyz"
UpperLetters == "ABCDEFGHIJKLMNOPQRSTUVWXYZ"
DigitChars == "0123456789"

CharsOf(text) == {At(text, i) : i \in 1..Len(text)}

LowerSet == CharsOf(LowerLetters)
UpperSet == CharsOf(UpperLetters)
DigitSet == CharsOf(DigitChars)

\* str.isalpha, str.isdigit and str.isspace on one character.
IsAlpha(c) == c \in LowerSet \/ c \in UpperSet
IsDigit(c) == c \in DigitSet
IsSpace(c) == c \in {" ", "\n", "\t"}

\* str.lower and str.upper on one character.
LowerChar(c) ==
    IF c \in UpperSet
    THEN At(LowerLetters, CHOOSE i \in 1..26 : At(UpperLetters, i) = c)
    ELSE c
UpperChar(c) ==
    IF c \in LowerSet
    THEN At(UpperLetters, CHOOSE i \in 1..26 : At(LowerLetters, i) = c)
    ELSE c

\* text.lower()
RECURSIVE StrLower(_)
StrLower(text) ==
    IF text = "" THEN "" ELSE LowerChar(At(text, 1)) \o StrLower(From(text, 2))

\* text.split(): the maximal runs of characters that are not whitespace;
\* word is the run being read.
RECURSIVE SplitWords(_, _)
SplitWords(text, word) ==
    IF text = "" THEN (IF word = "" THEN <<>> ELSE <<word>>)
    ELSE IF IsSpace(At(text, 1))
         THEN (IF word = "" THEN <<>> ELSE <<word>>)
                  \o SplitWords(From(text, 2), "")
         ELSE SplitWords(From(text, 2), word \o At(text, 1))

\* text.split(sep) for a one-character sep: the pieces between the
\* separators, empty pieces included; piece is the piece being read.
RECURSIVE SplitOn(_, _, _)
SplitOn(text, sep, piece) ==
    IF text = "" THEN <<piece>>
    ELSE IF At(text, 1) = sep
         THEN <<piece>> \o SplitOn(From(text, 2), sep, "")
         ELSE SplitOn(From(text, 2), sep, piece \o At(text, 1))

\* sep.join(words)
RECURSIVE Join(_, _)
Join(words, sep) ==
    IF words = <<>> THEN ""
    ELSE IF Len(words) = 1 THEN words[1]
    ELSE words[1] \o sep \o Join(Tail(words), sep)

\* re.sub(r'[^\w\s\-\']', '', text): only word characters, whitespace,
\* hyphens and apostrophes stay.
KeptByCleaning(c) ==
    IsAlpha(c) \/ IsDigit(c) \/ c = "_" \/ IsSpace(c) \/ c = "-" \/ c = "'"

RECURSIVE RemoveArtifacts(_)
RemoveArtifacts(text) ==
    IF text = "" THEN ""
    ELSE (IF KeptByCleaning(At(text, 1)) THEN At(text, 1) ELSE "")
             \o RemoveArtifacts(From(text, 2))

\* text.title(): a letter that follows a letter is lower-cased, any other
\* letter is upper-cased; after_letter tells whether the character before
\* text was a letter.
RECURSIVE TitleFrom(_, _)
TitleFrom(text, after_letter) ==
    IF text = "" THEN ""
    ELSE LET c == At(text, 1)
         IN  (IF ~IsAlpha(c) THEN c
              ELSE IF after_letter THEN LowerChar(c) ELSE UpperChar(c))
                 \o TitleFrom(From(text, 2), IsAlpha(c))

Title(text) == TitleFrom(text, FALSE)

\* text.strip()
RECURSIVE StripLeft(_)
StripLeft(text) ==
    IF text # "" /\ IsSpace(At(text, 1)) THEN StripLeft(From(text, 2)) ELSE text

RECURSIVE StripRight(_)
StripRight(text) ==
    IF text # "" /\ IsSpace(At(text, Len(text)))
    THEN StripRight(SubSeq(text, 1, Len(text) - 1)) ELSE text

Strip(text) == StripLeft(StripRight(text))

\* OCRProcessor.clean_text
CleanText(text) ==
    Strip(Title(RemoveArtifacts(Join(SplitWords(text, ""), " "))))

\* OCRProcessor.card_keywords
card_keywords ==
    <<"adventure", "artifact", "companion", "equipment", "skill",
      "market", "dungeon", "major secret", "minor secret",
      "clank", "skill point", "movement", "attack", "gold">>

\* keyword in text
Contains(text, keyword) ==
    \E i \in 1..(Len(text) - Len(keyword) + 1) :
        SubSeq(text, i, i + Len(keyword) - 1) = keyword

LetterCount(text) == Cardinality({i \in 1..Len(text) : IsAlpha(At(text, i))})

\* Variant of is_likely_card_name that looks for keywords only in texts of
\* 3 to 30 characters.
IsLikelyCardNameShortOnly(text) ==
    /\ 3 <= Len(text)
    /\ Len(text) <= 30
    /\ \/ LET text_lower == StrLower(text)
          IN  \E k \in DOMAIN card_keywords :
                  Contains(text_lower, card_keywords[k])
       \/ 10 * LetterCount(text) >= 7 * Len(text)

\* OCRProcessor.is_likely_card_name. letter_count >= len(text) * 0.7 is
\* compared in tenths: for the lengths 3..30 of that branch the floating
\* point product decides as 10 * letter_count >= 7 * len(text) does.
IsLikelyCardName(text) ==
    IF text = "" \/ Len(text) < 3 THEN FALSE
    ELSE IF LET text_lower == StrLower(text)
            IN  \E k \in DOMAIN card_keywords :
                    Contains(text_lower, card_keywords[k])
         THEN TRUE
    ELSE IF 3 <= Len(text) /\ Len(text) <= 30
         THEN 10 * LetterCount(text) >= 7 * Len(text)
    ELSE FALSE

\* What a recognition engine does with an image: it raises, or it gives its
\* output (Tesseract a text, EasyOCR a list of regions; of a region the
\* adapter keeps result[1], the text, and result[2], the confidence, here in
\* hundredths).
EngineFailure == [raised |-> TRUE, output |-> "None"]
EngineOutput(output) == [raised |-> FALSE, output |-> output]

\* Variant of the Tesseract adapter that returns the message of the error.
ExtractTextPytesseractMessage(outcome) ==
    IF outcome.raised THEN "Tesseract error" ELSE Strip(outcome.output)

\* OCRProcessor.extract_text_pytesseract, given what pytesseract does.
ExtractTextPytesseract(outcome) ==
    IF outcome.raised THEN "" ELSE Strip(outcome.output)

\* OCRProcessor.extract_text_easyocr, given what the EasyOCR reader does.
ExtractTextEasyocr(outcome) ==
    IF outcome.raised THEN <<>> ELSE outcome.output

\* The confidence a region must exceed, in hundredths.
ConfidenceThreshold == 70

\* [f(x) for x in seq if keep(x)] for the two loops of extract_card_names.
RECURSIVE LikelyNamesOf(_)
LikelyNamesOf(texts) ==
    IF texts = <<>> THEN <<>>
    ELSE LET cleaned == CleanText(Head(texts))
         IN  (IF IsLikelyCardName(cleaned) THEN <<cleaned>> ELSE <<>>)
                 \o LikelyNamesOf(Tail(texts))

\* Variant of the confidence test: at least the threshold.
ConfidentTextsAtLeast(regions) ==
    LET Kept(i) == regions[i].confidence >= ConfidenceThreshold
    IN  IF regions = <<>> THEN <<>>
        ELSE LET F[i \in 0..Len(regions)] ==
                     IF i = 0 THEN <<>>
                     ELSE IF Kept(i) THEN Append(F[i - 1], regions[i].text)
                     ELSE F[i - 1]
             IN  F[Len(regions)]

\* The texts of the regions with confidence > 0.7, in order.
ConfidentTexts(regions) ==
    LET Kept(i) == regions[i].confidence > ConfidenceThreshold
    IN  IF regions = <<>> THEN <<>>
        ELSE LET F[i \in 0..Len(regions)] ==
                     IF i = 0 THEN <<>>
                     ELSE IF Kept(i) THEN Append(F[i - 1], regions[i].text)
                     ELSE F[i - 1]
             IN  F[Len(regions)]

\* Variant of the last loop that keeps every name.
UniqueCardsKeepAll(card_names, unique_cards) == unique_cards \o card_names

\* The last loop of extract_card_names: unique_cards extended by the names
\* of card_names it does not hold yet.
RECURSIVE UniqueCards(_, _)
UniqueCards(card_names, unique_cards) ==
    IF card_names = <<>> THEN unique_cards
    ELSE UniqueCards(Tail(card_names),
                     IF \E i \in DOMAIN unique_cards :
                            unique_cards[i] = Head(card_names)
                     THEN unique_cards
                     ELSE Append(unique_cards, Head(card_names)))

\* OCRProcessor.extract_card_names(image), given what the two engines do
\* with the image they are handed: the names returned and the image each
\* adapter was called with.
ExtractCardNames(image, tesseract, easyocr) ==
    LET tesseract_text  == ExtractTextPytesseract(tesseract)
        easyocr_results == ExtractTextEasyocr(easyocr)
        from_tesseract  == IF tesseract_text # ""
                           THEN LikelyNamesOf(SplitOn(tesseract_text, "\n", ""))
                           ELSE <<>>
        from_easyocr    == LikelyNamesOf(ConfidentTexts(easyocr_results))
    IN  [returned        |-> UniqueCards(from_tesseract \o from_easyocr, <<>>),
         tesseract_image |-> image,
         easyocr_image   |-> image]

\* The confidence a text of high_confidence_text must exceed, in hundredths.
HighConfidenceThreshold == 80

\* Variant of the comprehension that collects the cleaned texts.
RECURSIVE HighConfidenceTextsCleaned(_)
HighConfidenceTextsCleaned(easyocr_results) ==
    IF easyocr_results = <<>> THEN <<>>
    ELSE (IF Head(easyocr_results).confidence > HighConfidenceThreshold
          THEN <<CleanText(Head(easyocr_results).text)>> ELSE <<>>)
             \o HighConfidenceTextsCleaned(Tail(easyocr_results))

\* [text for text, conf in easyocr_results if conf > 0.8]
RECURSIVE HighConfidenceTexts(_)
HighConfidenceTexts(easyocr_results) ==
    IF easyocr_results = <<>> THEN <<>>
    ELSE (IF Head(easyocr_results).confidence > HighConfidenceThreshold
          THEN <<Head(easyocr_results).text>> ELSE <<>>)
             \o HighConfidenceTexts(Tail(easyocr_results))

\* OCRProcessor.get_game_state_info(image), given what the two engines do
\* with the image (the same on each of the two passes over it).
GetGameStateInfo(image, tesseract, easyocr) ==
    LET all_text        == ExtractTextPytesseract(tesseract)
        easyocr_results == ExtractTextEasyocr(easyocr)
    IN  [raw_text             |-> all_text,
         card_names           |->
             ExtractCardNames(image, tesseract, easyocr).returned,
         high_confidence_text |-> HighConfidenceTexts(easyocr_results),
         timestamp            |-> None]

\* ScreenCapture.preprocess_for_ocr
Preprocess(image) == [image EXCEPT !.preprocessed = TRUE]

\* ScreenCapture.capture_game_area: the image the callers of
\* extract_card_names hand over.
Captures == {[name |-> "game_area", preprocessed |-> FALSE]}

\* Texts handed to clean_text.
CleanAlphabet == {"a", "B", " ", "!", "'"}

RECURSIVE StringsUpTo(_, _)
StringsUpTo(alphabet, n) ==
    IF n = 0 THEN {""}
    ELSE LET shorter == StringsUpTo(alphabet, n - 1)
         IN  shorter \cup {t \o c : t \in shorter, c \in alphabet}

CleanInputs == StringsUpTo(CleanAlphabet, MaxCleanLen)

\* The texts of test_clean_text, and words with an underscore, an
\* apostrophe, a hyphen and a digit in them.
CleanSamples ==
    {"  adventure   card  ", "sk!ll p@int: 2", "DUNGEON-ROOM",
     "multiple    spaces", "123", "a_b", "don't", "x-ray", "3rd"}

\* Texts handed to is_likely_card_name: letters followed by digits, digits
\* followed by a keyword, and a keyword between letters.
RECURSIVE Repeat(_, _)
Repeat(c, n) == IF n = 0 THEN "" ELSE c \o Repeat(c, n - 1)

HeuristicInputs ==
    UNION {{Repeat("x", n) \o Repeat("7", m) : m \in 0..(MaxTextLen - n)} :
              n \in 0..MaxTextLen}
    \cup {Repeat("7", m) \o "Gold" : m \in 0..MaxTextLen}
    \cup {card_keywords[k] : k \in DOMAIN card_keywords}

\* What the engines read: lines and regions whose cleaned texts are a name
\* with a keyword, the same name in another spelling, a second name and a
\* text the heuristic rejects.
LineTexts == {"gold", "GOLD!", "attack", "12"}
RegionTexts == {"gold", "attack", "12"}
Confidences == {ConfidenceThreshold, ConfidenceThreshold + 1}

TesseractOutcomes ==
    {EngineFailure}
    \cup {EngineOutput(Join(lines, "\n") \o "\n") :
             lines \in SeqsUpTo(LineTexts, MaxLines)}

EasyocrOutcomes ==
    {EngineFailure}
    \cup {EngineOutput(regions) :
             regions \in SeqsUpTo([text : RegionTexts,
                                   confidence : Confidences], MaxRegions)}

\* What the engines read from an image handed to get_game_state_info:
\* regions with a confidence at and on either side of 0.8.
InfoConfidences ==
    {ConfidenceThreshold + 1, HighConfidenceThreshold,
     HighConfidenceThreshold + 1}

InfoTesseractOutcomes == {EngineFailure, EngineOutput("gold\n")}

InfoEasyocrOutcomes ==
    {EngineFailure}
    \cup {EngineOutput(regions) :
             regions \in SeqsUpTo([text : RegionTexts,
                                   confidence : InfoConfidences], MaxRegions)}

\* The image of an adapter that has not been called.
NotCalled == [name |-> "not called", preprocessed |-> FALSE]

\* The record of a call on the OCR processor: the method, its arguments and
\* what it returned (none of the three calls raises); pending tells that
\* the call has not returned yet.
OcrRequest(op, args) ==
    [op |-> op, raised |-> NoException, returned |-> "None", args |-> args,
     pending |-> TRUE]

CleanTextCall ==
    /\ call.op = "clean_text"
    /\ call.pending
    /\ call' = [call EXCEPT !.returned = CleanText(call.args),
                            !.pending = FALSE]
    /\ UNCHANGED <<now, current_session, disk, saved>>
    /\ UNCHANGED app_vars

IsLikelyCardNameCall ==
    /\ call.op = "is_likely_card_name"
    /\ call.pending
    /\ call' = [call EXCEPT !.returned = IsLikelyCardName(call.args),
                            !.pending = FALSE]
    /\ UNCHANGED <<now, current_session, disk, saved>>
    /\ UNCHANGED app_vars

ExtractCardNamesCall ==
    /\ call.op = "extract_card_names"
    /\ call.pending
    /\ LET done == ExtractCardNames(call.args.image, call.args.tesseract,
                                    call.args.easyocr)
       IN  call' = [call EXCEPT
                       !.returned = done.returned,
                       !.pending = FALSE,
                       !.args = [call.args EXCEPT
                                    !.tesseract_image = done.tesseract_image,
                                    !.easyocr_image = done.easyocr_image]]
    /\ UNCHANGED <<now, current_session, disk, saved>>
    /\ UNCHANGED app_vars

GetGameStateInfoCall ==
    /\ call.op = "get_game_state_info"
    /\ call.pending
    /\ call' = [call EXCEPT
                   !.returned = GetGameStateInfo(call.args.image,
                                                 call.args.tesseract,
                                                 call.args.easyocr),
                   !.pending = FALSE]
    /\ UNCHANGED <<now, current_session, disk, saved>>
    /\ UNCHANGED app_vars

\* One call on the OCR processor of a tracker that has just been
\* constructed: the call and its arguments are drawn here, the engines'
\* behaviour included.
InitOcr ==
    /\ now = 0
    /\ current_session = NewSession(0)
    /\ disk = ForeignFiles
    /\ saved = <<>>
    /\ \/ \E text \in CleanInputs \cup CleanSamples :
              call = OcrRequest("clean_text", text)
       \/ \E text \in HeuristicInputs :
              call = OcrRequest("is_likely_card_name", text)
       \/ \E image \in Captures, tesseract \in TesseractOutcomes,
             easyocr \in EasyocrOutcomes :
              call = OcrRequest("extract_card_names",
                                [image           |-> image,
                                 tesseract       |-> tesseract,
                                 easyocr         |-> easyocr,
                                 tesseract_image |-> NotCalled,
                                 easyocr_image   |-> NotCalled])
       \/ \E image \in Captures, tesseract \in InfoTesseractOutcomes,
             easyocr \in InfoEasyocrOutcomes :
              call = OcrRequest("get_game_state_info",
                                [image     |-> image,
                                 tesseract |-> tesseract,
                                 easyocr   |-> easyocr])
    /\ AppNotStarted

NextOcr ==
    \/ CleanTextCall
    \/ IsLikelyCardNameCall
    \/ ExtractCardNamesCall
    \/ GetGameStateInfoCall

SpecOcr == InitOcr /\ [][NextOcr]_vars

----------------------------------------------------------------------------
(* ScreenCapture: construction and capture_game_area *)

\* Resolutions of the display.
ScreenSizes ==
    {[width |-> 1280, height |-> 720],  [width |-> 1366, height |-> 768],
     [width |-> 1920, height |-> 1080], [width |-> 2560, height |-> 1440],
     [width |-> 3840, height |-> 2160]}

\* int(n * 0.1) and int(n * 0.8): for every n from 0 to 20000 the floating
\* point product, truncated, is the whole part of n * tenths / 10.
IntOfTenths(n, tenths) == (n * tenths) \div 10

\* ScreenCapture.__init__: the size of the screen is read and kept.
NewScreenCapture(size) ==
    [screen_width |-> size.width, screen_height |-> size.height]

\* The region capture_game_area hands to capture_region.
GameArea(sc) ==
    [x      |-> IntOfTenths(sc.screen_width, 1),
     y      |-> IntOfTenths(sc.screen_height, 1),
     width  |-> IntOfTenths(sc.screen_width, 8),
     height |-> IntOfTenths(sc.screen_height, 8)]

CaptureGameArea ==
    /\ call' = Call("capture_game_area", NoException, GameArea(screen_capture))
    /\ UNCHANGED <<now, current_session, disk, saved, screen_size,
                   screen_capture, cli, monitoring_active, threads,
                   after_queue, ingest, trackers>>

\* ScreenCapture.capture_full_screen: pyautogui.screenshot() without a
\* region gives the whole screen as it is now.
CaptureFullScreen ==
    /\ call' = Call("capture_full_screen", NoException,
                    [x |-> 0, y |-> 0, width |-> screen_size.width,
                     height |-> screen_size.height])
    /\ UNCHANGED <<now, current_session, disk, saved, screen_size,
                   screen_capture, cli, monitoring_active, threads,
                   after_queue, ingest, trackers>>

\* ScreenCapture(): a new ScreenCapture takes the place of the one in use
\* (the applications construct theirs when they start).
ConstructScreenCapture ==
    /\ screen_capture' = NewScreenCapture(screen_size)
    /\ call' = Call("__init__", NoException, "None")
    /\ UNCHANGED <<now, current_session, disk, saved, screen_size, cli,
                   monitoring_active, threads, after_queue, ingest, trackers>>

\* The resolution of the display is changed (display settings, another
\* monitor) while the program runs.
ResolutionChange ==
    /\ \E size \in ScreenSizes : size # screen_size /\ screen_size' = size
    /\ UNCHANGED <<now, current_session, disk, call, saved, screen_capture,
                   cli, monitoring_active, threads, after_queue, ingest,
                   trackers>>

\* A ScreenCapture has just been constructed, next to a GameTracker.
InitScreen ==
    /\ now = 0
    /\ current_session = NewSession(0)
    /\ disk = ForeignFiles
    /\ call = Call("__init__", NoException, "None")
    /\ saved = <<>>
    /\ screen_size \in ScreenSizes
    /\ screen_capture = NewScreenCapture(screen_size)
    /\ cli = [interval |-> 0, pc |-> "not run", slept |-> <<>>,
             failed |-> FALSE]
    /\ monitoring_active = FALSE
    /\ threads = <<>>
    /\ after_queue = {}
    /\ ingest = [thread |-> "none", active |-> FALSE]
    /\ trackers = <<>>

NextScreen ==
    \/ ConstructScreenCapture
    \/ CaptureFullScreen
    \/ CaptureGameArea
    \/ ResolutionChange

SpecScreen == InitScreen /\ [][NextScreen]_vars

----------------------------------------------------------------------------
(* cli.py: main and ClankTrackerCLI.auto_monitoring_mode *)

\* The default of --interval, in seconds.
DefaultInterval == 5

\* "interval = 5  # seconds between captures" of auto_monitoring_mode.
SleepInterval == 5

\* The values args.interval has after parse_args: the default when the
\* option is not given, else the value given.
CliIntervals == {DefaultInterval, 1, 10}

\* Variant of the pass in which an error of the capture or of the
\* recognition ends the loop.
AutoCaptureAborting ==
    /\ cli.pc = "capture"
    /\ \E raises \in BOOLEAN, cards \in CardNameLists :
           /\ IF ~raises /\ cards # <<>>
              THEN /\ current_session' =
                        [current_session EXCEPT !["cards_seen"] =
                            DetectionLoop(@, cards, now, None)]
                   /\ call' = Call("track_card_detection", NoException,
                                   "None")
              ELSE UNCHANGED <<current_session, call>>
           /\ cli' = [cli EXCEPT !.pc = IF raises THEN "stopped" ELSE "sleep",
                                 !.failed = raises]
    /\ UNCHANGED <<now, disk, saved, screen_size, screen_capture,
                   monitoring_active, threads, after_queue, ingest, trackers>>

\* One pass of the loop up to the sleep. test_ocr_processing() gives the
\* cards; when the capture or the recognition raises, its except clause
\* prints the error and it gives the empty list (cli.failed keeps that this
\* happened). track_card_detection records the cards, without a screenshot
\* path, when there are any.
AutoCapture ==
    /\ cli.pc = "capture"
    /\ \E raises \in BOOLEAN, cards \in CardNameLists :
           /\ IF ~raises /\ cards # <<>>
              THEN /\ current_session' =
                        [current_session EXCEPT !["cards_seen"] =
                            DetectionLoop(@, cards, now, None)]
                   /\ call' = Call("track_card_detection", NoException,
                                   "None")
              ELSE UNCHANGED <<current_session, call>>
           /\ cli' = [cli EXCEPT !.pc = "sleep", !.failed = raises]
    /\ UNCHANGED <<now, disk, saved, screen_size, screen_capture,
                   monitoring_active, threads, after_queue, ingest, trackers>>

\* time.sleep(interval): the loop waits and begins its next pass.
AutoSleep ==
    /\ cli.pc = "sleep"
    /\ Len(cli.slept) < MaxCycles
    /\ cli' = [cli EXCEPT !.pc = "capture",
                          !.slept = Append(@, SleepInterval)]
    /\ now' = now + SleepInterval * TicksPerSecond
    /\ UNCHANGED <<current_session, disk, call, saved, screen_size,
                   screen_capture, monitoring_active, threads, after_queue,
                   ingest, trackers>>

\* Ctrl+C: KeyboardInterrupt ends the loop and the final stats are read.
AutoInterrupt ==
    /\ cli.pc \in {"capture", "sleep"}
    /\ cli' = [cli EXCEPT !.pc = "stopped"]
    /\ LET stats == GetSessionStats(current_session, now)
       IN  call' = Call("get_session_stats", stats.raised, stats.returned)
    /\ UNCHANGED <<now, current_session, disk, saved, screen_size,
                   screen_capture, monitoring_active, threads, after_queue,
                   ingest, trackers>>

\* main() has parsed the command line with --auto, has constructed the
\* components and has entered auto_monitoring_mode.
InitCli ==
    /\ now = 0
    /\ current_session = NewSession(0)
    /\ disk = ForeignFiles
    /\ call = Call("__init__", NoException, "None")
    /\ saved = <<>>
    /\ screen_size \in ScreenSizes
    /\ screen_capture = NewScreenCapture(screen_size)
    /\ \E interval \in CliIntervals :
           cli = [interval |-> interval, pc |-> "capture", slept |-> <<>>,
                  failed |-> FALSE]
    /\ monitoring_active = FALSE
    /\ threads = <<>>
    /\ after_queue = {}
    /\ ingest = [thread |-> "none", active |-> FALSE]
    /\ trackers = <<>>

NextCli ==
    \/ AutoCapture
    \/ AutoSleep
    \/ AutoInterrupt

SpecCli == InitCli /\ [][NextCli]_vars

----------------------------------------------------------------------------
(* gui.py: ClankTrackerGUI, its monitoring thread and the Tk event loop *)

\* The thread that runs root.mainloop() and every handler of the window.
MainThread == "MainThread"

\* The threads start_monitoring creates, in the order of their creation.
Workers == 1..MaxWorkers
ThreadName(w) == "Thread-" \o ToString(w)

\* What extract_card_names gives for a capture: nothing or a name.
GuiDetections == {<<>>, <<"Adventure Card">>}

\* A thread at the place pc of monitoring_loop, with its local cards.
Place(pc, cards) == [pc |-> pc, cards |-> cards]

\* f"screenshot_{timestamp.replace(':', '')}.png"
MonitorShotPath(t) ==
    Str("screenshot_" \o ToString(t \div TicksPerSecond) \o ".png")

\* ClankTrackerGUI.start_monitoring (the handler of the Start button).
StartMonitoring ==
    /\ ~monitoring_active
    /\ \E w \in Workers :
           /\ threads[w].pc = "unstarted"
           /\ \A v \in 1..(w - 1) : threads[v].pc # "unstarted"
           /\ threads' = [threads EXCEPT ![w] = Place("test", <<>>)]
    /\ monitoring_active' = TRUE
    /\ UNCHANGED <<now, current_session, disk, call, saved, screen_size,
                   screen_capture, cli, after_queue, ingest, trackers>>

\* ClankTrackerGUI.stop_monitoring (the handler of the Stop button).
StopMonitoring ==
    /\ monitoring_active
    /\ monitoring_active' = FALSE
    /\ UNCHANGED <<now, current_session, disk, call, saved, screen_size,
                   screen_capture, cli, threads, after_queue, ingest,
                   trackers>>

\* ClankTrackerGUI.manual_capture (a handler, on the main thread): capture,
\* recognition and, when cards were found, track_card_detection.
ManualCapture ==
    /\ \E cards \in GuiDetections :
           IF cards # <<>>
           THEN /\ current_session' =
                     [current_session EXCEPT !["cards_seen"] =
                         DetectionLoop(@, cards, now,
                                       Str("manual_capture.png"))]
                /\ call' = Call("track_card_detection", NoException, "None")
                /\ ingest' = [thread |-> MainThread,
                              active |-> monitoring_active]
           ELSE UNCHANGED <<current_session, call, ingest>>
    /\ UNCHANGED <<now, disk, saved, screen_size, screen_capture, cli,
                   monitoring_active, threads, after_queue, trackers>>

\* The event loop runs the callbacks handed to root.after that are waiting;
\* none of them touches the flag, the threads or the session.
RunCallback ==
    /\ after_queue # {}
    /\ after_queue' = {}
    /\ UNCHANGED <<now, current_session, disk, call, saved, screen_size,
                   screen_capture, cli, monitoring_active, threads, ingest,
                   trackers>>

\* monitoring_loop, "while self.monitoring_active:".
WorkerTest(w) ==
    /\ threads[w].pc = "test"
    /\ threads' = [threads EXCEPT ![w] =
                      Place(IF monitoring_active THEN "capture" ELSE "done",
                          <<>>)]
    /\ UNCHANGED <<now, current_session, disk, call, saved, screen_size,
                   screen_capture, cli, monitoring_active, after_queue,
                   ingest, trackers>>

\* monitoring_loop, from the capture to "if cards:". When the capture or
\* the recognition raises, the except clause hands the message to
\* root.after and leaves the loop. Otherwise the screenshot is handed to
\* root.after for display and extract_card_names gives the cards: the
\* thread goes on to track them, or to sleep when there are none.
WorkerCapture(w) ==
    /\ threads[w].pc = "capture"
    /\ \E raises \in BOOLEAN, cards \in GuiDetections :
           IF raises
           THEN /\ after_queue' = after_queue \cup {"monitoring_error"}
                /\ threads' = [threads EXCEPT ![w] = Place("done", <<>>)]
           ELSE /\ after_queue' =
                     after_queue \cup {"update_screenshot_display"}
                /\ threads' = [threads EXCEPT ![w] =
                                  IF cards # <<>> THEN Place("track", cards)
                                  ELSE Place("sleep", <<>>)]
    /\ UNCHANGED <<now, current_session, disk, call, saved, screen_size,
                   screen_capture, cli, monitoring_active, ingest, trackers>>

\* The thread w after the card at the head of its list has been dealt
\* with: the loop of track_card_detection goes on to the next card, or the
\* call returns, the two displays are handed to root.after and the thread
\* goes to sleep.
NextCard(w) ==
    /\ threads' = [threads EXCEPT ![w] =
                      IF Tail(threads[w].cards) = <<>> THEN Place("sleep", <<>>)
                      ELSE Place("track", Tail(threads[w].cards))]
    /\ after_queue' =
          IF Tail(threads[w].cards) = <<>>
          THEN after_queue \cup {"update_cards_display",
                                  "update_status_display"}
          ELSE after_queue

\* Variant of the tracking step that looks at the flag again and records
\* nothing once monitoring has been stopped.
WorkerTrackUnlessStopped(w) ==
    /\ threads[w].pc = "track"
    /\ IF ~monitoring_active
       THEN /\ threads' = [threads EXCEPT ![w] = Place("sleep", <<>>)]
            /\ UNCHANGED <<after_queue, ingest>>
       ELSE /\ ingest' = [thread |-> ThreadName(w),
                          active |-> monitoring_active]
            /\ IF Head(threads[w].cards)
                      \notin SeenNames(current_session["cards_seen"])
               THEN /\ threads' = [threads EXCEPT ![w].pc = "append"]
                    /\ UNCHANGED after_queue
               ELSE NextCard(w)
    /\ UNCHANGED <<now, current_session, disk, call, saved, screen_size,
                   screen_capture, cli, monitoring_active, trackers>>

\* monitoring_loop, the body of "if cards:": track_card_detection is called
\* here, by the monitoring thread. This step is the membership test
\* "card_name not in [...]" for the next card; the append it decides on is
\* a later step of the thread, and other threads run in between.
WorkerTrack(w) ==
    /\ threads[w].pc = "track"
    /\ ingest' = [thread |-> ThreadName(w), active |-> monitoring_active]
    /\ IF Head(threads[w].cards)
              \notin SeenNames(current_session["cards_seen"])
       THEN /\ threads' = [threads EXCEPT ![w].pc = "append"]
            /\ UNCHANGED after_queue
       ELSE NextCard(w)
    /\ UNCHANGED <<now, current_session, disk, call, saved, screen_size,
                   screen_capture, cli, monitoring_active, trackers>>

\* track_card_detection in the monitoring thread,
\* "self.current_session["cards_seen"].append(card_event)" for the card
\* whose test found it new.
WorkerAppend(w) ==
    /\ threads[w].pc = "append"
    /\ current_session' =
          [current_session EXCEPT !["cards_seen"] =
              Append(@, [card_name  |-> Head(threads[w].cards),
                         timestamp  |-> now,
                         screenshot |-> MonitorShotPath(now),
                         confidence |-> "detected"])]
    /\ call' = Call("track_card_detection", NoException, "None")
    /\ NextCard(w)
    /\ UNCHANGED <<now, disk, saved, screen_size, screen_capture, cli,
                   monitoring_active, ingest, trackers>>

\* monitoring_loop, time.sleep(5) has returned.
WorkerSleep(w) ==
    /\ threads[w].pc = "sleep"
    /\ threads' = [threads EXCEPT ![w] = Place("test", <<>>)]
    /\ UNCHANGED <<now, current_session, disk, call, saved, screen_size,
                   screen_capture, cli, monitoring_active, after_queue,
                   ingest, trackers>>

\* A step of the monitoring thread w.
WorkerStep(w) ==
    \/ WorkerTest(w)
    \/ WorkerCapture(w)
    \/ WorkerTrack(w)
    \/ WorkerAppend(w)
    \/ WorkerSleep(w)

\* The window is open and the components are constructed; no monitoring
\* thread has been started.
InitGui ==
    /\ now = 0
    /\ current_session = NewSession(0)
    /\ disk = ForeignFiles
    /\ call = Call("__init__", NoException, "None")
    /\ saved = <<>>
    /\ screen_size = [width |-> 1920, height |-> 1080]
    /\ screen_capture = NewScreenCapture(screen_size)
    /\ cli = [interval |-> 0, pc |-> "not run", slept |-> <<>>,
             failed |-> FALSE]
    /\ monitoring_active = FALSE
    /\ threads = [w \in Workers |-> Place("unstarted", <<>>)]
    /\ after_queue = {}
    /\ ingest = [thread |-> "none", active |-> FALSE]
    /\ trackers = <<>>

NextGui ==
    \/ StartMonitoring
    \/ StopMonitoring
    \/ ManualCapture
    \/ RunCallback
    \/ \E w \in Workers : WorkerTest(w)
    \/ \E w \in Workers : WorkerCapture(w)
    \/ \E w \in Workers : WorkerTrack(w)
    \/ \E w \in Workers : WorkerAppend(w)
    \/ \E w \in Workers : WorkerSleep(w)

\* The operating system lets every thread that can run take its next step,
\* time.sleep returns, and the event loop runs the callbacks it was handed.
SpecGui ==
    /\ InitGui
    /\ [][NextGui]_vars
    /\ \A w \in Workers : WF_vars(WorkerStep(w))
    /\ WF_vars(RunCallback)

----------------------------------------------------------------------------
(* GameTracker.identify_scenario *)

\* any(keyword in card.lower() for card in detected_cards)
AnyCardHas(detected_cards, keyword) ==
    \E i \in DOMAIN detected_cards :
        Contains(StrLower(detected_cards[i]), keyword)

\* Variant of identify_scenario in which the first card that matches a rule
\* decides.
RECURSIVE IdentifyScenarioFirstCard(_)
IdentifyScenarioFirstCard(detected_cards) ==
    IF detected_cards = <<>> THEN "Unknown Scenario"
    ELSE LET card == StrLower(Head(detected_cards))
         IN  IF Contains(card, "dungeon") THEN "Dungeon Exploration"
             ELSE IF Contains(card, "market") THEN "Market Phase"
             ELSE IF Contains(card, "artifact") THEN "Artifact Acquisition"
             ELSE IdentifyScenarioFirstCard(Tail(detected_cards))

IdentifyScenario(detected_cards) ==
    IF AnyCardHas(detected_cards, "dungeon") THEN "Dungeon Exploration"
    ELSE IF AnyCardHas(detected_cards, "market") THEN "Market Phase"
    ELSE IF AnyCardHas(detected_cards, "artifact") THEN "Artifact Acquisition"
    ELSE "Unknown Scenario"

\* The names of test_identify_scenario, in mixed letter case.
ScenarioCards == {"Dungeon Room", "MARKET Stall", "Ancient artifact", "Monster"}

DetectedCardLists == SeqsUpTo(ScenarioCards, MaxDetected)

IdentifyScenarioCall ==
    /\ call.op = "identify_scenario"
    /\ call.pending
    /\ call' = [call EXCEPT !.returned = IdentifyScenario(call.args),
                            !.pending = FALSE]
    /\ UNCHANGED <<now, current_session, disk, saved>>
    /\ UNCHANGED app_vars

\* One identify_scenario call on a tracker that has just been constructed.
InitScenario ==
    /\ now = 0
    /\ current_session = NewSession(0)
    /\ disk = ForeignFiles
    /\ saved = <<>>
    /\ \E detected_cards \in DetectedCardLists :
           call = OcrRequest("identify_scenario", detected_cards)
    /\ AppNotStarted

NextScenario == IdentifyScenarioCall

SpecScenario == InitScenario /\ [][NextScenario]_vars

\* Variant of identify_scenario that keeps the label it found in the
\* session's scenarios.
IdentifyScenarioRecording(detected_cards) ==
    /\ call' = Call("identify_scenario", NoException,
                    IdentifyScenario(detected_cards))
    /\ current_session' =
          IF "scenarios" \in DOMAIN current_session
          THEN [current_session EXCEPT !["scenarios"] =
                   Append(@, IdentifyScenario(detected_cards))]
          ELSE current_session
    /\ UNCHANGED <<now, disk, saved>>
    /\ UNCHANGED app_vars

\* identify_scenario(detected_cards) on the live accumulator.
IdentifyScenarioOn(detected_cards) ==
    /\ call' = Call("identify_scenario", NoException,
                    IdentifyScenario(detected_cards))
    /\ UNCHANGED <<now, current_session, disk, saved>>
    /\ UNCHANGED app_vars

\* Every operation of the accumulator, in any order: detections of at most
\* one name, loads of the session's own file and of the file holding {}.
NextAll ==
    \/ Tick
    \/ \E card_names \in SeqsUpTo(CardNames, 1),
          screenshot_path \in ScreenshotPaths :
           TrackCardDetection(card_names, screenshot_path)
    \/ \E event_type \in EventTypes, description \in Descriptions,
          data \in EventData :
           TrackGameEvent(event_type, description, data)
    \/ \E screenshot_path \in ShotPaths, ocr_results \in OcrResults :
           TrackScreenshot(screenshot_path, ocr_results)
    \/ \E open_fails \in BOOLEAN : SaveSession(open_fails)
    \/ \E session_file \in DurationLoadable : LoadSession(session_file)
    \/ GetSessionStatsCall
    \/ GenerateSessionReportCall
    \/ IdentifyScenarioOn(<<"Dungeon Room", "Monster">>)

SpecAll == Init /\ [][NextAll]_vars

\* Every operation but load_session, on an accumulator as constructed.
NextLive ==
    \/ NextFresh
    \/ GetSessionStatsCall
    \/ GenerateSessionReportCall
    \/ IdentifyScenarioOn(<<"Dungeon Room", "Monster">>)

SpecLive == Init /\ [][NextLive]_vars

----------------------------------------------------------------------------
(* Properties *)

Range(seq) == {seq[i] : i \in DOMAIN seq}

\* The six fields of a SessionState that exist from construction on.
SessionKeys == {"session_id", "start_time", "cards_seen", "scenarios",
                "game_events", "screenshots"}

HasCards == "cards_seen" \in DOMAIN current_session

\* C1: in every state a freshly constructed accumulator reaches through
\* track_card_detection, track_game_event, track_screenshot and save_session,
\* cards_seen holds at most one CardEvent per card_name.
C1_UniqueCardNames ==
    \A i, j \in DOMAIN current_session["cards_seen"] :
        current_session["cards_seen"][i].card_name
            = current_session["cards_seen"][j].card_name => i = j

\* A detection call has left two events with different names.
C1_Witness ==
    /\ call.op = "track_card_detection"
    /\ Len(current_session["cards_seen"]) = 2

\* C2: a track_card_detection call whose card_names are all already in
\* cards_seen, or whose card_names is empty, leaves current_session as it was.
C2_KnownNamesChangeNothing ==
    [][call'.op = "track_card_detection" =>
       \A card_names \in CardNameLists, screenshot_path \in ScreenshotPaths :
          ( /\ \/ card_names = <<>>
               \/ /\ HasCards
                  /\ Range(card_names)
                         \subseteq SeenNames(current_session["cards_seen"])
            /\ TrackCardDetection(card_names, screenshot_path) )
          => current_session' = current_session]_vars

\* The cards were recorded before the tick of the last save, and a detection
\* call made after that save has returned without adding or changing an event.
C2_Witness ==
    /\ call.op = "track_card_detection"
    /\ call.raised = NoException
    /\ HasCards
    /\ "end_time" \in DOMAIN current_session
    /\ current_session["cards_seen"] # <<>>
    /\ \A i \in DOMAIN current_session["cards_seen"] :
           current_session["cards_seen"][i].timestamp
               < current_session["end_time"]

\* The positions i..Len(card_names) of card_names that hold a name not in seen
\* and not at an earlier position, in increasing order.
RECURSIVE FirstArrivalsFrom(_, _, _)
FirstArrivalsFrom(card_names, seen, i) ==
    IF i > Len(card_names) THEN <<>>
    ELSE IF /\ card_names[i] \notin seen
            /\ \A j \in 1..(i - 1) : card_names[j] # card_names[i]
         THEN <<i>> \o FirstArrivalsFrom(card_names, seen, i + 1)
         ELSE FirstArrivalsFrom(card_names, seen, i + 1)

FirstArrivals(card_names, seen) == FirstArrivalsFrom(card_names, seen, 1)

\* C3: track_card_detection appends, in input order, one CardEvent (with the
\* call's timestamp and screenshot) for each card_name that no existing
\* CardEvent and no earlier position of the input has as the same string,
\* compared case-sensitively; nothing else of cards_seen changes.
C3_AppendsFirstArrivals ==
    [][call'.op = "track_card_detection" =>
       \A card_names \in CardNameLists, screenshot_path \in ScreenshotPaths :
          ( TrackCardDetection(card_names, screenshot_path) /\ HasCards )
          => LET old == current_session["cards_seen"]
                 new == current_session'["cards_seen"]
                 arr == FirstArrivals(card_names, SeenNames(old))
             IN  /\ Len(new) = Len(old) + Len(arr)
                 /\ \A i \in DOMAIN old : new[i] = old[i]
                 /\ \A k \in DOMAIN arr :
                        new[Len(old) + k] =
                            [card_name  |-> card_names[arr[k]],
                             timestamp  |-> now,
                             screenshot |-> screenshot_path,
                             confidence |-> "detected"]]_vars

\* Both spellings of a name that differ only in letter case are stored.
C3_Witness ==
    /\ call.op = "track_card_detection"
    /\ HasCards
    /\ Len(current_session["cards_seen"]) = 2
    /\ current_session["cards_seen"][1].card_name = "Adventure Card"
    /\ current_session["cards_seen"][2].card_name = "adventure card"

\* C4: load_session of a file that is not well-formed JSON raises and leaves
\* current_session (and the files) as they were.
C4_CorruptLoadChangesNothing ==
    [][call'.op = "load_session" =>
       \A session_file \in LoadablePaths :
          ( /\ LoadSession(session_file)
            /\ session_file \in DOMAIN disk
            /\ ~WellFormed(disk[session_file]) )
          => /\ call'.raised # NoException
             /\ current_session' = current_session
             /\ disk' = disk]_vars

\* A corrupted file was loaded into a session that holds entries.
C4_Witness ==
    /\ call.op = "load_session"
    /\ call.raised = "JSONDecodeError"
    /\ Entries(current_session) > 0

\* C5: the live session always has every SessionState field (load_session
\* rejects a well-formed document that lacks the SessionState shape).
C5_LiveSessionHasShape == SessionKeys \subseteq DOMAIN current_session

\* d1 and d2 have the same keys among ks, with the same values.
AgreeOn(ks, d1, d2) ==
    \A k \in ks : /\ k \in DOMAIN d1 <=> k \in DOMAIN d2
                  /\ k \in DOMAIN d1 => d1[k] = d2[k]

\* C6: loading the location a save_session returned, in the same accumulator
\* or in a newly constructed one, gives a live session whose session_id,
\* start_time, cards_seen, scenarios, game_events and screenshots are those of
\* the session that was saved; end_time is the one key the save added.
C6_RoundTrip ==
    [][call'.op = "load_session" =>
       \A session_file \in SessionFiles :
          ( /\ session_file \in DOMAIN saved
            /\ \/ LoadSession(session_file)
               \/ LoadIntoNewTracker(session_file) )
          => /\ call'.raised = NoException
             /\ AgreeOn(SessionKeys, current_session', saved[session_file])
             /\ DOMAIN current_session'
                    = DOMAIN saved[session_file] \cup {"end_time"}]_vars

\* A saved session with entries has been loaded back.
C6_Witness ==
    /\ call.op = "load_session"
    /\ call.raised = NoException
    /\ Entries(current_session) = MaxEntries
    /\ \E session_file \in DOMAIN saved :
           /\ AgreeOn(SessionKeys, current_session, saved[session_file])
           /\ current_session = JsonLoad(disk[session_file])

\* C7: a load_session that returns replaces the live session wholesale: the
\* live session is then the persisted document and nothing else.
C7_LoadReplacesWholesale ==
    [][call'.op = "load_session" =>
       \A session_file \in LoadablePaths :
          ( LoadSession(session_file) /\ call'.raised = NoException )
          => /\ current_session' = JsonLoad(disk[session_file])
             /\ \A k \in DOMAIN current_session :
                    k \notin DOMAIN JsonLoad(disk[session_file])
                        => k \notin DOMAIN current_session']_vars

\* A load has returned and the live session is the document {} of the file
\* loaded: no key of the session that was live before the call is left.
C7_Witness ==
    /\ call.op = "load_session"
    /\ call.raised = NoException
    /\ current_session = JsonLoad(disk[EmptyObjectFile])
    /\ DOMAIN current_session = {}

\* C8: a session can be saved again and stays mutable after a save: every
\* save_session stamps end_time with the clock of that call, and after a save
\* track_card_detection, track_game_event and track_screenshot still record.
C8_SaveAgainAndStillMutable ==
    [][/\ \A open_fails \in BOOLEAN :
             SaveSession(open_fails)
             => /\ "end_time" \in DOMAIN current_session'
                /\ current_session'["end_time"] = now
       /\ "end_time" \in DOMAIN current_session
          => /\ \A card_names \in CardNameLists,
                   screenshot_path \in ScreenshotPaths :
                   TrackCardDetection(card_names, screenshot_path)
                   => Range(card_names)
                          \subseteq SeenNames(current_session'["cards_seen"])
             /\ \A event_type \in EventTypes, description \in Descriptions,
                   data \in EventData :
                   TrackGameEvent(event_type, description, data)
                   => Len(current_session'["game_events"])
                          = Len(current_session["game_events"]) + 1
             /\ \A screenshot_path \in ShotPaths, ocr_results \in OcrResults :
                   TrackScreenshot(screenshot_path, ocr_results)
                   => Len(current_session'["screenshots"])
                          = Len(current_session["screenshots"]) + 1]_vars

\* The session was saved, an entry was recorded at a later tick, and the
\* session was saved again: the file written first held an earlier end_time.
C8_Witness ==
    /\ call.op = "save_session"
    /\ call.raised = NoException
    /\ call.returned \in DOMAIN saved
    /\ "end_time" \in DOMAIN saved[call.returned]
    /\ saved[call.returned]["end_time"] < current_session["end_time"]
    /\ \E i \in DOMAIN current_session["game_events"] :
           current_session["game_events"][i].timestamp
               > saved[call.returned]["end_time"]

SaveStep == \E open_fails \in BOOLEAN : SaveSession(open_fails)

\* C9 as stated: end_time is absent until the first save, is set by a save,
\* and once set keeps its value for the rest of the session.
C9_EndTimeSetOnce ==
    [][/\ ("end_time" \notin DOMAIN current_session /\ ~SaveStep)
              => "end_time" \notin DOMAIN current_session'
       /\ ("end_time" \notin DOMAIN current_session /\ SaveStep)
              => /\ "end_time" \in DOMAIN current_session'
                 /\ current_session'["end_time"] = now
       /\ "end_time" \in DOMAIN current_session
              => /\ "end_time" \in DOMAIN current_session'
                 /\ current_session'["end_time"]
                        = current_session["end_time"]]_vars

\* C9 amended: end_time is absent from construction until the first save;
\* every save_session, the first and each later one, sets it to the clock of
\* that call; no other call changes it.
C9_EndTimeSetBySaveOnly ==
    /\ "end_time" \notin DOMAIN current_session
    /\ [][IF SaveStep
          THEN /\ "end_time" \in DOMAIN current_session'
               /\ current_session'["end_time"] = now
          ELSE /\ "end_time" \in DOMAIN current_session'
                     <=> "end_time" \in DOMAIN current_session
               /\ "end_time" \in DOMAIN current_session
                     => current_session'["end_time"]
                            = current_session["end_time"]]_vars

\* A second save has replaced the end_time of an earlier save by a later one.
C9_Witness ==
    /\ call.op = "save_session"
    /\ call.returned \in DOMAIN saved
    /\ "end_time" \in DOMAIN saved[call.returned]
    /\ saved[call.returned]["end_time"] # current_session["end_time"]

\* C10: when save_session returns, the file at the returned location holds
\* exactly the live session, end_time of this call included, and nothing of
\* its earlier content; no other file has changed; the location is
\* save_directory/<session_id>.json.
C10_SavedFileIsLiveSession ==
    [][call'.op = "save_session" =>
       \A open_fails \in BOOLEAN :
          ( SaveSession(open_fails) /\ call'.raised = NoException )
          => LET location == call'.returned
             IN  /\ location = "docs/" \o current_session["session_id"]
                                   \o ".json"
                 /\ location \in DOMAIN disk'
                 /\ WellFormed(disk'[location])
                 /\ JsonLoad(disk'[location]) = current_session'
                 /\ Len(disk'[location].members)
                        = Cardinality(DOMAIN current_session')
                 /\ current_session'["end_time"] = now
                 /\ DOMAIN disk' = DOMAIN disk \cup {location}
                 /\ \A other \in DOMAIN disk \ {location} :
                        disk'[other] = disk[other]]_vars

\* A save has returned after rewriting the file an earlier save of the same
\* session wrote; the session holds entries.
C10_Witness ==
    /\ call.op = "save_session"
    /\ call.raised = NoException
    /\ call.returned \in DOMAIN saved
    /\ "end_time" \in DOMAIN saved[call.returned]
    /\ AgreeOn(SessionKeys, saved[call.returned], current_session)
    /\ Entries(current_session) > 0

\* C11: in every reachable state get_session_stats() returns the live
\* session_id, unique_cards_seen = len(cards_seen), total_events =
\* len(game_events), screenshots_captured = len(screenshots) and
\* scenarios_identified = the number of distinct scenarios.
C11_StatsCountEntries ==
    call.op = "get_session_stats"
    => /\ call.raised = NoException
       /\ call.returned.session_id = current_session["session_id"]
       /\ call.returned.unique_cards_seen = Len(current_session["cards_seen"])
       /\ call.returned.total_events = Len(current_session["game_events"])
       /\ call.returned.screenshots_captured
              = Len(current_session["screenshots"])
       /\ call.returned.scenarios_identified
              = Cardinality(Range(current_session["scenarios"]))

\* C12: every track_game_event call appends exactly one event that carries
\* the event_type and the description given, whether or not the same event
\* is recorded already, and the data it stores is a dict: the empty one when
\* no data was given.
C12_EventAlwaysAppended ==
    [][call'.op = "track_game_event" =>
       \A event_type \in EventTypes, description \in Descriptions,
          data \in EventData :
          TrackGameEvent(event_type, description, data)
          => LET old == current_session["game_events"]
                 new == current_session'["game_events"]
             IN  /\ call'.raised = NoException
                 /\ Len(new) = Len(old) + 1
                 /\ SubSeq(new, 1, Len(old)) = old
                 /\ new[Len(new)].event_type = event_type
                 /\ new[Len(new)].description = description
                 /\ new[Len(new)].data # None
                 /\ data = None => new[Len(new)].data = Dict(<<>>)]_vars

\* Two calls with the same arguments at the same tick have left two equal
\* events, each with the empty dict as data.
C12_Witness ==
    /\ call.op = "track_game_event"
    /\ Len(current_session["game_events"]) = 2
    /\ current_session["game_events"][1] = current_session["game_events"][2]
    /\ current_session["game_events"][2].data = Dict(<<>>)

IsPrefix(s, t) == Len(s) <= Len(t) /\ SubSeq(t, 1, Len(s)) = s

\* C13: cards_seen, game_events and screenshots only grow at the end: over
\* every step of an accumulator that does not load, each list of the earlier
\* state is a prefix of the list of the later state, and a track_screenshot
\* call makes screenshots longer by exactly one entry.
C13_AppendOnly ==
    [][/\ \A key \in {"cards_seen", "game_events", "screenshots"} :
             IsPrefix(current_session[key], current_session'[key])
       /\ call'.op = "track_screenshot" =>
             \A screenshot_path \in ShotPaths, ocr_results \in OcrResults :
                TrackScreenshot(screenshot_path, ocr_results)
                => Len(current_session'["screenshots"])
                       = Len(current_session["screenshots"]) + 1]_vars

\* A second screenshot was recorded at a later tick than the first.
C13_Witness ==
    /\ call.op = "track_screenshot"
    /\ Len(current_session["screenshots"]) = 2
    /\ current_session["screenshots"][1].timestamp
           < current_session["screenshots"][2].timestamp

\* C14: the report has one line per event of cards_seen, in order, and one
\* line for each of the last min(5, n) of the n game events, in their order;
\* with more than 5 game events the earlier ones have no line.
C14_ReportShowsLastFive ==
    (call.op = "generate_session_report" /\ call.raised = NoException)
    => LET cards  == current_session["cards_seen"]
           events == current_session["game_events"]
           n      == Len(events)
           k      == IF n < 5 THEN n ELSE 5
           report == call.returned
       IN  /\ Len(report.card_lines) = Len(cards)
           /\ \A i \in DOMAIN cards :
                  /\ report.card_lines[i].card_name = cards[i].card_name
                  /\ report.card_lines[i].at = cards[i].timestamp
           /\ Len(report.event_lines) = k
           /\ \A i \in 1..k :
                  /\ report.event_lines[i].event_type
                         = events[n - k + i].event_type
                  /\ report.event_lines[i].description
                         = events[n - k + i].description

\* A report of a session with 7 game events and two cards: it shows event_3
\* to event_7.
C14_Witness ==
    /\ call.op = "generate_session_report"
    /\ call.raised = NoException
    /\ Len(current_session["game_events"]) = 7
    /\ Len(current_session["cards_seen"]) = 2
    /\ Len(call.returned.event_lines) = 5
    /\ call.returned.event_lines[1].event_type = "event_3"
    /\ call.returned.event_lines[5].event_type = "event_7"

\* The call op on the OCR processor has returned.
Returned(op) == call.op = op /\ ~call.pending

\* C15: clean_text is idempotent: cleaning a cleaned text gives it back.
C15_CleanIdempotent ==
    Returned("clean_text") => CleanText(call.returned) = call.returned

\* C17: in every extract_card_names call both adapters are called with the
\* preprocessed image, never with the capture as it was handed over.
C17_AdaptersGetPreprocessedImage ==
    Returned("extract_card_names")
    => /\ call.args.tesseract_image = Preprocess(call.args.image)
       /\ call.args.easyocr_image = Preprocess(call.args.image)

\* The names Engine A contributes: the cleaned lines of the text Tesseract
\* read that pass the card-name heuristic, in order.
EngineANames(tesseract) ==
    IF tesseract.raised THEN <<>>
    ELSE LikelyNamesOf(SplitOn(Strip(tesseract.output), "\n", ""))

\* The names Engine B contributes: the cleaned texts of the confident
\* regions that pass the card-name heuristic, in order.
EngineBNames(easyocr) ==
    IF easyocr.raised THEN <<>>
    ELSE LikelyNamesOf(ConfidentTexts(easyocr.output))

\* C16: extract_card_names returns Engine A's names followed by Engine B's
\* names without the repetitions: no name twice, each name at the place of
\* its first occurrence, so a name of both engines stands where Engine A
\* had it.
C16_FirstOccurrencesInOrder ==
    Returned("extract_card_names")
    => LET names == EngineANames(call.args.tesseract)
                        \o EngineBNames(call.args.easyocr)
           first == FirstArrivals(names, {})
           result == call.returned
       IN  /\ \A i, j \in DOMAIN result : result[i] = result[j] => i = j
           /\ Len(result) = Len(first)
           /\ \A k \in DOMAIN first : result[k] = names[first[k]]

\* Tesseract read "Gold"; EasyOCR read "Attack" and then "Gold": the result
\* has "Gold" once, before "Attack".
C16_Witness ==
    /\ Returned("extract_card_names")
    /\ EngineANames(call.args.tesseract) = <<"Gold">>
    /\ EngineBNames(call.args.easyocr) = <<"Attack", "Gold">>
    /\ call.returned = <<"Gold", "Attack">>

\* C18: is_likely_card_name(text) is false for a text of fewer than 3
\* characters; otherwise true when the lower-cased text contains a keyword,
\* whatever its length; otherwise true exactly when the text has at most 30
\* characters and at least 70% of them are letters.
C18_HeuristicDecision ==
    Returned("is_likely_card_name")
    => LET text == call.args
           has_keyword == \E k \in DOMAIN card_keywords :
                              Contains(StrLower(text), card_keywords[k])
           letters == Cardinality({i \in 1..Len(text) : IsAlpha(At(text, i))})
       IN  /\ Len(text) < 3 => call.returned = FALSE
           /\ (Len(text) >= 3 /\ has_keyword) => call.returned = TRUE
           /\ (Len(text) >= 3 /\ ~has_keyword)
                 => (call.returned = TRUE
                        <=> (Len(text) <= 30 /\ 10 * letters >= 7 * Len(text)))
           /\ (letters = 0 \/ (Len(text) > 30 /\ ~has_keyword))
                 => call.returned = FALSE

\* A text of more than 30 characters, most of them digits, was accepted for
\* the keyword in it.
C18_Witness ==
    /\ Returned("is_likely_card_name")
    /\ Len(call.args) > 30
    /\ call.returned = TRUE

\* C19: every name extract_card_names returns is one of Engine A's names or
\* the cleaned text, passing the heuristic, of a region whose confidence is
\* above 0.7 (70 hundredths); a region with confidence 0.7 or less adds
\* nothing; every name of Engine A is returned, whatever the confidences.
C19_ConfidenceAboveThreshold ==
    Returned("extract_card_names")
    => LET from_a == Range(EngineANames(call.args.tesseract))
           regions == IF call.args.easyocr.raised THEN <<>>
                      ELSE call.args.easyocr.output
       IN  /\ \A name \in Range(call.returned) :
                  \/ name \in from_a
                  \/ \E i \in DOMAIN regions :
                         /\ regions[i].confidence > 70
                         /\ CleanText(regions[i].text) = name
                         /\ IsLikelyCardName(name)
           /\ from_a \subseteq Range(call.returned)

\* EasyOCR read "attack" with confidence 0.70 and "gold" with 0.71, Tesseract
\* read no name: only "Gold" is returned.
C19_Witness ==
    /\ Returned("extract_card_names")
    /\ EngineANames(call.args.tesseract) = <<>>
    /\ ~call.args.easyocr.raised
    /\ call.args.easyocr.output = <<[text |-> "attack", confidence |-> 70],
                                    [text |-> "gold", confidence |-> 71]>>
    /\ call.returned = <<"Gold">>

\* C20: extract_card_names returns whatever the engines do, and both
\* adapters are called; when one engine raises, the names returned are those
\* of a call in which that engine read nothing; when both raise or read
\* nothing the result is the empty list.
C20_AdaptersFailSoft ==
    Returned("extract_card_names")
    => LET image == call.args.image
           tesseract == call.args.tesseract
           easyocr == call.args.easyocr
       IN  /\ call.raised = NoException
           /\ call.args.tesseract_image # NotCalled
           /\ call.args.easyocr_image # NotCalled
           /\ tesseract.raised
                 => call.returned
                        = ExtractCardNames(image, EngineOutput(""),
                                           easyocr).returned
           /\ easyocr.raised
                 => call.returned
                        = ExtractCardNames(image, tesseract,
                                           EngineOutput(<<>>)).returned
           /\ (tesseract.raised /\ easyocr.raised) => call.returned = <<>>

\* Tesseract raised and the names EasyOCR read were returned.
C20_Witness ==
    /\ Returned("extract_card_names")
    /\ call.args.tesseract.raised
    /\ ~call.args.easyocr.raised
    /\ call.returned = <<"Attack", "Gold">>

\* The rearrangements of a list: the list read through each one-to-one
\* renumbering of its positions.
Rearrangements(seq) ==
    {[i \in DOMAIN seq |-> seq[p[i]]] :
        p \in {q \in [DOMAIN seq -> DOMAIN seq] :
                  \A i, j \in DOMAIN seq : q[i] = q[j] => i = j}}

\* C25: identify_scenario is decided by the rules in the order dungeon,
\* market, artifact, each a case-insensitive substring test over all names:
\* every rearrangement of the names gives the same result, names of a
\* dungeon and of a market together give "Dungeon Exploration", and names
\* that match no rule (the empty list too) give "Unknown Scenario".
C25_RuleOrderDecides ==
    Returned("identify_scenario")
    => LET cards == call.args
           Has(keyword) == \E i \in DOMAIN cards :
                               Contains(StrLower(cards[i]), keyword)
       IN  /\ \A other \in Rearrangements(cards) :
                  IdentifyScenario(other) = call.returned
           /\ Has("dungeon") => call.returned = "Dungeon Exploration"
           /\ (~Has("dungeon") /\ Has("market"))
                 => call.returned = "Market Phase"
           /\ (~Has("dungeon") /\ ~Has("market") /\ Has("artifact"))
                 => call.returned = "Artifact Acquisition"
           /\ (~Has("dungeon") /\ ~Has("market") /\ ~Has("artifact"))
                 => call.returned = "Unknown Scenario"

\* The market name stands before the dungeon name and the dungeon rule
\* decided.
C25_Witness ==
    /\ Returned("identify_scenario")
    /\ call.args = <<"MARKET Stall", "Dungeon Room">>
    /\ call.returned = "Dungeon Exploration"

\* C26: the text clean_text returns holds only letters, digits, whitespace,
\* hyphens and apostrophes (no underscore, no punctuation), neither starts
\* nor ends with whitespace, and has no two whitespace characters in a row.
C26_CleanOutputCharacters ==
    Returned("clean_text")
    => LET out == call.returned
       IN  /\ \A i \in 1..Len(out) :
                  LET c == At(out, i)
                  IN  IsAlpha(c) \/ IsDigit(c) \/ IsSpace(c)
                          \/ c = "-" \/ c = "'"
           /\ out # "" => ~IsSpace(At(out, 1)) /\ ~IsSpace(At(out, Len(out)))
           /\ \A i \in 1..(Len(out) - 1) :
                  ~(IsSpace(At(out, i)) /\ IsSpace(At(out, i + 1)))

\* C27: in the text clean_text returns, the first character of every
\* whitespace-delimited word is not a lower-case letter and every letter at
\* a later place of the word is lower case, whatever stands before it in
\* the word (a hyphen, an apostrophe, a digit).
C27_TitleCasePerWord ==
    Returned("clean_text")
    => LET words == SplitWords(call.returned, "")
       IN  \A w \in DOMAIN words :
               /\ At(words[w], 1) \notin LowerSet
               /\ \A i \in 2..Len(words[w]) : At(words[w], i) \notin UpperSet

\* s can be had from t by leaving entries out.
RECURSIVE IsSubsequence(_, _)
IsSubsequence(s, t) ==
    IF s = <<>> THEN TRUE
    ELSE IF t = <<>> THEN FALSE
    ELSE IF Head(s) = Head(t) THEN IsSubsequence(Tail(s), Tail(t))
    ELSE IsSubsequence(s, Tail(t))

\* C28: the high_confidence_text get_game_state_info returns is a
\* sub-sequence of the texts of the regions Engine B gave for the image:
\* each of its members is the text of a region, and it has no more members
\* than there are regions (none when the engine failed).
C28_HighConfidenceIsSubsequence ==
    Returned("get_game_state_info")
    => LET regions == IF call.args.easyocr.raised THEN <<>>
                      ELSE call.args.easyocr.output
           texts   == [i \in DOMAIN regions |-> regions[i].text]
           high    == call.returned.high_confidence_text
       IN  /\ IsSubsequence(high, texts)
           /\ Range(high) \subseteq Range(texts)
           /\ Len(high) <= Len(texts)

\* Of two regions, read with confidence 0.81 and 0.80, only the text of the
\* first is in high_confidence_text.
C28_Witness ==
    /\ Returned("get_game_state_info")
    /\ ~call.args.easyocr.raised
    /\ call.args.easyocr.output = <<[text |-> "gold", confidence |-> 81],
                                    [text |-> "attack", confidence |-> 80]>>
    /\ call.returned.high_confidence_text = <<"gold">>

\* int(text) for a text of decimal digits.
RECURSIVE DigitsValue(_)
DigitsValue(text) ==
    IF text = "" THEN 0
    ELSE 10 * DigitsValue(SubSeq(text, 1, Len(text) - 1))
             + (CHOOSE d \in 0..9 : At(DigitChars, d + 1) = At(text, Len(text)))

AllDigits(text) == \A i \in 1..Len(text) : IsDigit(At(text, i))

\* The whole seconds a duration text stands for: hours, minutes and
\* seconds, separated by colons.
DurationSeconds(text) ==
    LET parts == SplitOn(text, ":", "")
    IN  3600 * DigitsValue(parts[1]) + 60 * DigitsValue(parts[2])
            + DigitsValue(parts[3])

\* text is H:MM:SS: hours of at least two digits (more only when the number
\* needs them), two-digit minutes and seconds in 0..59.
IsDurationText(text) ==
    LET parts == SplitOn(text, ":", "")
    IN  /\ Len(parts) = 3
        /\ \A k \in 1..3 : AllDigits(parts[k])
        /\ Len(parts[1]) >= 2
        /\ Len(parts[1]) > 2 => At(parts[1], 1) # "0"
        /\ Len(parts[2]) = 2 /\ DigitsValue(parts[2]) <= 59
        /\ Len(parts[3]) = 2 /\ DigitsValue(parts[3]) <= 59

\* The whole seconds from start_time to end_time, to the clock when the
\* session has no end_time.
ElapsedSeconds(session, t) ==
    ((IF "end_time" \in DOMAIN session THEN session["end_time"] ELSE t)
        - session["start_time"]) \div TicksPerSecond

\* C23: in every reachable state, also after a load, get_session_stats
\* returns a duration H:MM:SS of the whole seconds elapsed: hours not
\* wrapped at 24, in at least two digits, minutes and seconds in two digits
\* and in 0..59.
C23_DurationFormat ==
    [][(call'.op = "get_session_stats" /\ GetSessionStatsCall)
       => /\ call'.raised = NoException
          /\ IsDurationText(call'.returned.duration)
          /\ DurationSeconds(call'.returned.duration)
                 = ElapsedSeconds(current_session, now)]_vars

\* C24: the duration get_session_stats and generate_session_report give is
\* the time from start_time to the clock while the session has no end_time
\* and from start_time to end_time once it has one; with an end_time the
\* duration is the same at every later reading of the clock, and the
\* passing of time and the recording of events leave it as it is.
C24_DurationStopsAtEndTime ==
    [][/\ ( /\ call'.op \in {"get_session_stats", "generate_session_report"}
            /\ call'.raised = NoException
            /\ GetSessionStatsCall \/ GenerateSessionReportCall )
          => /\ DurationSeconds(call'.returned.duration)
                    = IF "end_time" \in DOMAIN current_session
                      THEN (current_session["end_time"]
                               - current_session["start_time"])
                               \div TicksPerSecond
                      ELSE (now - current_session["start_time"])
                               \div TicksPerSecond
             /\ "end_time" \in DOMAIN current_session
                    => \A t \in DurationInstants :
                           GetSessionStats(current_session, t).returned.duration
                               = call'.returned.duration
       /\ ( /\ {"start_time", "end_time"} \subseteq DOMAIN current_session
            /\ \/ Elapse
               \/ \E event_type \in EventTypes, description \in Descriptions,
                     data \in EventData :
                      TrackGameEvent(event_type, description, data) )
          => CalculateSessionDuration(current_session', now')
                 = CalculateSessionDuration(current_session, now)]_vars

\* A session saved after 59 seconds, with an event recorded after the save,
\* is reported more than a day later with a duration of 59 seconds.
C24_Witness ==
    /\ call.op = "get_session_stats"
    /\ call.raised = NoException
    /\ "end_time" \in DOMAIN current_session
    /\ now > 24 * 3600 * TicksPerSecond
    /\ current_session["end_time"] = 59 * TicksPerSecond
    /\ \E i \in DOMAIN current_session["game_events"] :
           current_session["game_events"][i].timestamp
               > current_session["end_time"]
    /\ call.returned.duration = "00:00:59"

\* C29: the automatic monitoring of the command line waits the configured
\* interval between capture cycles: every sleep of the loop lasts the
\* number of seconds args.interval holds (5 when --interval is not given).
C29_SleepsConfiguredInterval ==
    \A i \in DOMAIN cli.slept : cli.slept[i] = cli.interval

\* C30: every capture_game_area call asks for the region x = floor(0.1 W),
\* y = floor(0.1 H), width = floor(0.8 W), height = floor(0.8 H) of the
\* screen as it is at the time of the call, W wide and H high, and the
\* region lies within that screen.
C30_RegionOfCurrentScreen ==
    [][(call'.op = "capture_game_area" /\ CaptureGameArea)
       => LET W == screen_size.width
              H == screen_size.height
              region == call'.returned
          IN  /\ region.x = W \div 10
              /\ region.y = H \div 10
              /\ region.width = (8 * W) \div 10
              /\ region.height = (8 * H) \div 10
              /\ region.x + region.width <= W
              /\ region.y + region.height <= H]_vars

\* C21: in the GUI no monitoring thread calls an ingestion operation of the
\* accumulator: every track_card_detection call is made by the main thread,
\* the one that owns the window and the session.
C21_IngestionOnOwningThread ==
    ingest.thread \in {"none", MainThread}

\* The threads that are inside a capture/recognize/ingest cycle.
InCycle(w) == threads[w].pc \in {"capture", "track", "append"}

\* C22: the monitoring loop reads the stop flag only between cycles: a
\* thread begins a cycle only while monitoring_active is true; a cycle under
\* way goes on whatever the flag is, and its ingestion records the cards it
\* found; every cycle under way comes to its end; and when monitoring is
\* stopped and not started again, every thread ends.
C22_StopIsCooperative ==
    /\ [][\A w \in Workers :
             /\ (threads[w].pc = "test" /\ threads'[w].pc = "capture")
                    => monitoring_active
             /\ (InCycle(w) /\ threads'[w] # threads[w])
                    => threads'[w].pc \in {"track", "append", "sleep", "done"}
             /\ (threads[w].pc = "track" /\ threads'[w] # threads[w])
                    => ingest'.thread = ThreadName(w)
             /\ (threads[w].pc \in {"track", "append"}
                    /\ threads'[w] # threads[w])
                    => /\ threads'[w].pc \in {"track", "append", "sleep"}
                       /\ threads'[w].pc # "append"
                            => Head(threads[w].cards) \in
                                   SeenNames(current_session'["cards_seen"])
                ]_vars
    /\ \A w \in Workers :
           InCycle(w) ~> (threads[w].pc \in {"sleep", "done"})
    /\ <>[](~monitoring_active)
           => <>[](\A w \in Workers :
                      threads[w].pc \in {"unstarted", "done"})

\* Monitoring was stopped while a thread was inside a cycle; the thread has
\* since recorded the cards of that cycle and has ended.
C22_Witness ==
    /\ ~monitoring_active
    /\ threads[1].pc = "done"
    /\ ingest = [thread |-> ThreadName(1), active |-> FALSE]
    /\ current_session["cards_seen"] # <<>>

\* C31: the accumulators constructed in one run, the live one and the
\* others, have pairwise distinct session_ids and so distinct session files
\* in the save directory they share, also when two of them were constructed
\* within one second.
C31_SessionIdsDistinct ==
    LET ids == <<current_session["session_id"]>> \o
                   [i \in DOMAIN trackers |-> trackers[i]["session_id"]]
    IN  \A i, j \in DOMAIN ids :
            i # j => /\ ids[i] # ids[j]
                     /\ SessionFile(save_directory, ids[i])
                            # SessionFile(save_directory, ids[j])

\* C32: frame conditions. get_session_stats, generate_session_report and
\* identify_scenario leave current_session as it was; track_card_detection
\* changes nothing but cards_seen, track_game_event nothing but game_events,
\* track_screenshot nothing but screenshots, save_session nothing but
\* end_time; session_id and start_time change in a load_session only. (Every
\* operation leaves its name in call; a step with an unchanged call is the
\* passing of time.)
ChangesOnly(keys) ==
    \A k \in (DOMAIN current_session \cup DOMAIN current_session') \ keys :
        /\ k \in DOMAIN current_session
        /\ k \in DOMAIN current_session'
        /\ current_session'[k] = current_session[k]

C32_FrameConditions ==
    [][LET op == call'.op
       IN  /\ op \in {"get_session_stats", "generate_session_report",
                      "identify_scenario"}
                => current_session' = current_session
           /\ op = "track_card_detection" => ChangesOnly({"cards_seen"})
           /\ op = "track_game_event" => ChangesOnly({"game_events"})
           /\ op = "track_screenshot" => ChangesOnly({"screenshots"})
           /\ op = "save_session" => ChangesOnly({"end_time"})
           /\ op # "load_session"
                => AgreeOn({"session_id", "start_time"}, current_session,
                           current_session')]_vars

\* A report has been made of a saved session that holds entries.
C32_Witness ==
    /\ call.op = "generate_session_report"
    /\ call.raised = NoException
    /\ "end_time" \in DOMAIN current_session
    /\ Entries(current_session) >= 2

\* C38: no operation of an accumulator that never loads changes scenarios:
\* it is the empty list in every reachable state, identify_scenario returns
\* its label without recording it, and get_session_stats reports 0
\* scenarios_identified.
C38_ScenariosStayEmpty ==
    /\ current_session["scenarios"] = <<>>
    /\ call.op = "get_session_stats" /\ call.raised = NoException
         => call.returned.scenarios_identified = 0

\* identify_scenario has just recognised a scenario on a session that holds
\* entries.
C38_Witness ==
    /\ call.op = "identify_scenario"
    /\ call.returned = "Dungeon Exploration"
    /\ current_session["scenarios"] = <<>>
    /\ Entries(current_session) >= 1

\* C36: a save_session whose open() fails raises the error to its caller
\* and leaves current_session as it was before the call: end_time is neither
\* set nor stamped again.
C36_FailedSaveChangesNothing ==
    [][SaveSession(TRUE)
         => /\ call'.raised = "OSError"
            /\ current_session' = current_session]_vars

\* The timestamps of the entries a session holds.
Timestamps(session) ==
    UNION {{session[k][i].timestamp : i \in DOMAIN session[k]} :
              k \in {"cards_seen", "game_events", "screenshots"}
                       \cap DOMAIN session}

\* C37 as stated: whenever end_time is set, no entry of the session has a
\* timestamp later than end_time.
C37_NoEntryAfterEndTime ==
    "end_time" \in DOMAIN current_session
        => \A t \in Timestamps(current_session) :
               t <= current_session["end_time"]

\* C37: when save_session has stamped end_time, whether or not the write
\* then succeeds, no entry of the session has a timestamp later than
\* end_time; an entry recorded afterwards may, until the next save.
C37_NoEntryAfterEndTimeAtSave ==
    [][call'.op = "save_session" /\ SaveStep
         => \A t \in Timestamps(current_session') :
                t <= current_session'["end_time"]]_vars

\* A save at a later tick has stamped a session that holds an entry.
C37_Witness ==
    /\ call.op = "save_session"
    /\ "end_time" \in DOMAIN current_session
    /\ \E t \in Timestamps(current_session) : t < current_session["end_time"]

\* C33: in the GUI, whatever the order in which the steps of the monitoring
\* threads and the handlers of the main thread are taken, cards_seen never
\* holds two CardEvents with the same card_name.
C33_UniqueUnderConcurrency ==
    LET cards_seen == current_session["cards_seen"]
    IN  \A i, j \in DOMAIN cards_seen :
            cards_seen[i].card_name = cards_seen[j].card_name => i = j

\* The monitoring threads that have been started and have not ended.
Running == {w \in Workers : threads[w].pc \notin {"unstarted", "done"}}

\* C34: at most one monitoring thread is inside monitoring_loop (running a
\* cycle, testing the flag or sleeping) at any time, whatever the sequence of
\* start_monitoring and stop_monitoring calls.
C34_AtMostOneWorker ==
    Cardinality(Running) <= 1

\* C35: when monitoring_active is true and the event loop has run the error
\* message a failed thread handed to it, a monitoring thread is running:
\* after the loop was left on a capture or recognition error the GUI does
\* not go on reporting monitoring as active.
C35_ActiveMeansWorkerRunning ==
    monitoring_active /\ "monitoring_error" \notin after_queue
        => Running # {}

\* C39: in auto_monitoring_mode a pass whose capture or recognition raises
\* leaves current_session as it was and is followed by the sleep, as every
\* other pass is; the loop is left on Ctrl+C only, and then the final stats
\* are read, successfully, from the session as it is.
C39_FailedCycleGoesOn ==
    [][/\ AutoCapture /\ cli'.failed
            => /\ cli'.pc = "sleep"
               /\ current_session' = current_session
       /\ cli'.pc = "stopped" /\ cli.pc # "stopped"
            => /\ AutoInterrupt
               /\ call'.raised = NoException
               /\ current_session' = current_session]_vars

\* After a pass that recorded cards, a pass failed; the loop has slept and
\* has begun its next pass.
C39_Witness ==
    /\ cli.pc = "capture"
    /\ cli.failed
    /\ Len(cli.slept) >= 2
    /\ current_session["cards_seen"] # <<>>


====
